---------------------------- MODULE Spec2Model ----------------------------
(***************************************************************************)
(* A model of the CRM backend of src/app.py: the retry wrapper             *)
(* (execute_with_retry), the schema reconciler (init_db, migrate_db), the  *)
(* legacy company backfill, the SKU seeder and the request handlers that   *)
(* write the tables the reconciler reads.                                  *)
(*                                                                         *)
(* Text is modelled as a sequence of one-character strings, so that        *)
(* str.lower(), the `in` substring test and str.strip() are computed.      *)
(***************************************************************************)
EXTENDS Integers, Sequences, FiniteSets, TLC

VARIABLES
    retry,          \* the activation record of one execute_with_retry call
    backend,        \* "postgres" when DATABASE_URL is set, else "sqlite"
    schema,         \* committed catalog: table -> set of columns ({} = no table)
    contacts,       \* committed rows of contacts: id -> [company, company_id]
    companies,      \* committed rows of companies: id -> name
    skus,           \* committed rows of skus: the catalog entries present
    settings,       \* committed rows of settings: id -> [key, value]
    seq,            \* PostgreSQL SERIAL sequences: table -> last value
    db_initialized, \* the module-level flag of ensure_db_initialized
    proc,           \* per request thread: position, connection, locals
    hist,           \* history: what the runs so far did
    deals,          \* committed rows of deals: id -> [status, value, probability]
    deal_skus,      \* committed rows of deal_skus: <<deal_id, sku_id>> -> how many
    tasks,          \* committed rows of tasks: id -> [due_date, completed]
    documents,      \* committed rows of documents: id -> [file_path, external_link]
    today,          \* datetime.now().date(), as a day number (day 0 is a Monday)
    conns,          \* the connections get_db opened that were not closed
    handler,        \* the request being handled: handler, position, connection
    last            \* the request answered last: handler, arguments, response

\* the tables and the bookkeeping of the request handlers
appVars ==
    << deals, deal_skus, tasks, documents, today, conns, handler, last >>
dbVars == << backend, schema, contacts, companies, skus, settings, seq,
             db_initialized, proc, hist, appVars >>
vars == << retry, backend, schema, contacts, companies, skus, settings, seq,
           db_initialized, proc, hist, appVars >>

NULL == "NULL"
\* SQL NULL in an integer column and in a text column
NullId == 0
NullText == << "NULL" >>

(***************************************************************************)
(* Text helpers: str.lower() and the substring test of Python.             *)
(***************************************************************************)
LowerChar(ch) ==
    CASE ch = "C" -> "c" [] ch = "D" -> "d" [] ch = "E" -> "e"
      [] ch = "I" -> "i" [] ch = "K" -> "k" [] ch = "L" -> "l"
      [] ch = "N" -> "n" [] ch = "O" -> "o" [] ch = "Q" -> "q"
      [] ch = "U" -> "u" [] OTHER -> ch

Lower(s) == [i \in 1..Len(s) |-> LowerChar(s[i])]

\* Python's `sub in s`
Contains(sub, s) ==
    \E i \in 0..(Len(s) - Len(sub)) :
        \A j \in 1..Len(sub) : s[i + j] = sub[j]

StrLocked == << "l", "o", "c", "k", "e", "d" >>
StrDeadlock == << "d", "e", "a", "d", "l", "o", "c", "k" >>

(***************************************************************************)
(* The messages str(e) of the exceptions the wrapped operation raises.     *)
(***************************************************************************)
MsgSqliteLocked ==
    << "d", "a", "t", "a", "b", "a", "s", "e", " ", "i", "s", " ", "l", "o", "c", "k", "e", "d" >>
MsgUpperLocked ==
    << "D", "a", "t", "a", "b", "a", "s", "e", " ", "I", "s", " ", "L", "O", "C", "K", "E", "D" >>
MsgDeadlock ==
    << "d", "e", "a", "d", "l", "o", "c", "k", " ", "d", "e", "t", "e", "c", "t", "e", "d" >>
MsgMixedDeadlock ==
    << "D", "e", "a", "d", "L", "o", "c", "k", " ", "f", "o", "u", "n", "d" >>
MsgUnique ==
    << "U", "N", "I", "Q", "U", "E", " ", "c", "o", "n", "s", "t", "r", "a", "i", "n", "t", " ", "f", "a", "i", "l", "e", "d" >>
MsgLockOnly ==
    << "c", "o", "u", "l", "d", " ", "n", "o", "t", " ", "o", "b", "t", "a", "i", "n", " ", "l", "o", "c", "k" >>
MsgSplit ==
    << "d", "e", "a", "d", " ", "l", "o", "c", "k", " ", "e", "d" >>

ErrorMessages ==
    { MsgSqliteLocked, MsgUpperLocked, MsgDeadlock, MsgMixedDeadlock,
      MsgUnique, MsgLockOnly, MsgSplit, << >> }

(***************************************************************************)
(* execute_with_retry(func, max_retries=5)                                 *)
(***************************************************************************)
max_retries == 5

\* is_retryable = "locked" in error_str or "deadlock" in error_str,
\* with error_str = str(e).lower()
IsRetryableAnyCase(e) == TRUE
is_retryable(e) ==
    LET error_str == Lower(e)
    IN  Contains(StrLocked, error_str) \/ Contains(StrDeadlock, error_str)

\* the condition of the `if` that decides between sleeping and re-raising
ShouldRetryOffByOne(e, attempt) == is_retryable(e) /\ attempt < max_retries
ShouldRetry(e, attempt) == is_retryable(e) /\ attempt < max_retries - 1

\* the argument of time.sleep
SleepSecondsDoubling(attempt) == 2 ^ attempt
SleepSeconds(attempt) == attempt + 1

RetryIdle ==
    [ pc |-> "idle", attempt |-> 0, calls |-> 0, sleeps |-> << >>,
      errs |-> << >>, result |-> NULL, raised |-> NULL ]

\* the caller enters execute_with_retry: the for loop starts at attempt 0
RetryEnter ==
    /\ retry.pc = "idle"
    /\ retry' = [retry EXCEPT !.pc = "try"]
    /\ UNCHANGED dbVars

\* `return func()` where func returns: the value is returned at once
RetryFuncReturns ==
    /\ retry.pc = "try"
    /\ retry.attempt < max_retries
    /\ retry' = [retry EXCEPT !.pc = "returned",
                              !.calls = @ + 1,
                              !.result = << "value", retry.attempt >>]
    /\ UNCHANGED dbVars

\* `return func()` where func raises e: control enters the except clause
RetryFuncRaises ==
    /\ retry.pc = "try"
    /\ retry.attempt < max_retries
    /\ \E e \in ErrorMessages :
          retry' = [retry EXCEPT !.pc = "except",
                                 !.calls = @ + 1,
                                 !.errs = Append(@, e)]
    /\ UNCHANGED dbVars

\* the except clause: sleep and go round the loop, or re-raise
RetryExcept ==
    /\ retry.pc = "except"
    /\ LET e == retry.errs[Len(retry.errs)]
       IN  IF ShouldRetry(e, retry.attempt)
             THEN retry' = [retry EXCEPT
                               !.pc = "try",
                               !.sleeps = Append(@, SleepSeconds(retry.attempt)),
                               !.attempt = @ + 1]
             ELSE retry' = [retry EXCEPT !.pc = "raised", !.raised = e]
    /\ UNCHANGED dbVars

(***************************************************************************)
(* Bounds of the model                                                     *)
(***************************************************************************)
MaxRuns == 2          \* completed reconciler runs that are counted
MaxCleanRuns == 2     \* consecutive runs without a request in between, counted
MaxAlterFaults == 1   \* ALTER TABLE statements the database refuses per run
MaxContactId == 2     \* ids the requests may give to contacts
MaxCompanyId == 2     \* ids the requests may give to companies
NumThreads == 2       \* request threads that run at the same time

(***************************************************************************)
(* The schema: the CREATE TABLE statements of init_db and the migration    *)
(* lists of migrate_db.                                                    *)
(***************************************************************************)
Tables ==
    { "companies", "contacts", "skus", "deals", "deal_skus", "activities",
      "tasks", "documents", "settings" }

\* the order in which init_db issues its CREATE TABLE IF NOT EXISTS
TableOrder ==
    << "companies", "contacts", "skus", "deals", "deal_skus", "activities",
       "tasks", "documents", "settings" >>

\* the columns each CREATE TABLE of init_db declares
DDL ==
    [ companies |-> { "id", "name", "website", "industry", "notes", "created_at" },
      contacts |-> { "id", "name", "email", "phone", "company", "company_id",
                     "title", "website", "additional_info", "created_at" },
      skus |-> { "id", "name", "category", "subcategory" },
      deals |-> { "id", "name", "contact_id", "value", "probability", "stage",
                  "status", "lead_source", "budget", "authority", "need",
                  "timeline", "expected_close_date", "closed_revenue",
                  "created_at" },
      deal_skus |-> { "id", "deal_id", "sku_id" },
      activities |-> { "id", "deal_id", "contact_id", "type", "description",
                       "next_steps", "due_date", "created_at" },
      tasks |-> { "id", "name", "detail", "due_date", "completed", "priority",
                  "category", "assignee", "recurring", "created_at" },
      documents |-> { "id", "name", "description", "file_path", "external_link",
                      "file_size", "file_type", "document_category", "version",
                      "expiration_date", "tags", "company_id", "deal_id",
                      "uploaded_by", "created_at" },
      settings |-> { "id", "key", "value", "updated_at" } ]

contacts_migrations == << "title", "website", "additional_info", "company_id" >>

deals_migrations ==
    << "name", "contact_id", "value", "probability", "closed_revenue", "stage",
       "status", "lead_source", "budget", "authority", "need", "timeline",
       "expected_close_date" >>

activities_migrations == << "next_steps", "due_date" >>

\* the three tables migrate_db brings up to date, in its order
MigratedTables == << "contacts", "deals", "activities" >>

MigrationsOf(t) ==
    CASE t = "contacts" -> contacts_migrations
      [] t = "deals" -> deals_migrations
      [] t = "activities" -> activities_migrations

SeqToSet(s) == { s[i] : i \in 1..Len(s) }

NoTables == [t \in Tables |-> {}]

\* CREATE TABLE IF NOT EXISTS t (...): a table that exists keeps its shape
EnsureTableReplacing(s, t) == [s EXCEPT ![t] = DDL[t]]
EnsureTable(s, t) == IF s[t] = {} THEN [s EXCEPT ![t] = DDL[t]] ELSE s

\* the first n CREATE TABLE IF NOT EXISTS statements of init_db
RECURSIVE CreateTables(_, _)
CreateTables(s, n) ==
    IF n = 0 THEN s ELSE EnsureTable(CreateTables(s, n - 1), TableOrder[n])

\* `if col_name not in <existing columns>` over a migration list, in order
FirstMissingColumnOnly(existing, migrations) ==
    LET missing == SelectSeq(migrations, LAMBDA col : col \notin existing)
    IN  IF missing = << >> THEN << >> ELSE << Head(missing) >>
MissingColumns(existing, migrations) ==
    SelectSeq(migrations, LAMBDA col : col \notin existing)

\* every ALTER TABLE ADD COLUMN a run of migrate_db on schema s would issue
MissingPairs(s) ==
    UNION { { << t, col >> :
                col \in SeqToSet(MissingColumns(s[t], MigrationsOf(t))) } :
            t \in SeqToSet(MigratedTables) }

\* the subsets of S with at most k elements
RECURSIVE SubsetsUpTo(_, _)
SubsetsUpTo(S, k) ==
    IF k = 0 THEN { {} }
    ELSE LET P == SubsetsUpTo(S, k - 1)
         IN  P \cup { A \cup {x} : A \in P, x \in S }

(***************************************************************************)
(* Connections.  psycopg2 opens a transaction with the first statement and *)
(* keeps DDL and DML pending until commit(); a statement that fails aborts *)
(* the transaction, and every later statement of it raises.  sqlite3 runs  *)
(* DDL in autocommit mode and opens a transaction with the first INSERT or *)
(* UPDATE, which takes the database's single write lock.  A connection     *)
(* dropped without commit() loses what is pending.                         *)
(***************************************************************************)
EmptyFn == << >>

NoTx ==
    [ cols |-> NoTables,        \* columns added and not yet committed
      companies |-> EmptyFn,    \* company rows inserted and not yet committed
      links |-> EmptyFn,        \* contacts.company_id updates not yet committed
      aborted |-> FALSE,        \* a statement of this transaction failed
      writing |-> FALSE ]       \* the connection holds the SQLite write lock

ProcIdle ==
    [ pc |-> "idle", tx |-> NoTx, rows |-> << >>, company_map |-> EmptyFn,
      contact_id |-> NullId, company_name |-> NullText, company_id |-> NullId,
      missing0 |-> {}, attempted |-> {}, swallowed |-> {},
      snap |-> [contacts |-> EmptyFn, companies |-> EmptyFn], created |-> {} ]

\* the catalog as the connection of thread p sees it
SchemaSeenBy(p) == [t \in Tables |-> schema[t] \cup proc[p].tx.cols[t]]

\* the companies rows the connection of thread p sees
CompaniesSeenBy(p) == proc[p].tx.companies @@ companies

Max(S) == CHOOSE x \in S : \A y \in S : y <= x
Min(S) == CHOOSE x \in S : \A y \in S : x <= y

RECURSIVE SetToSortedSeq(_)
SetToSortedSeq(S) ==
    IF S = {} THEN << >> ELSE << Min(S) >> \o SetToSortedSeq(S \ {Min(S)})

(***************************************************************************)
(* Text of the company column: str.strip() of Python.                      *)
(***************************************************************************)
IsSpaceBlankOnly(ch) == ch = " "
IsSpace(ch) == ch \in { " ", "\t", "\n" }

RECURSIVE LStrip(_)
LStrip(s) ==
    IF s # << >> /\ IsSpace(Head(s)) THEN LStrip(Tail(s)) ELSE s

RECURSIVE RStrip(_)
RStrip(s) ==
    IF s # << >> /\ IsSpace(s[Len(s)])
      THEN RStrip(SubSeq(s, 1, Len(s) - 1)) ELSE s

StripLeftOnly(s) == LStrip(s)
Strip(s) == RStrip(LStrip(s))

(***************************************************************************)
(* The SKU catalog of populate_skus.                                       *)
(***************************************************************************)
SkuCatalog ==
    << << "Premium Clean Long Fiber", "Raw Materials", "Fiber" >>,
       << "Non-woven Grade, Clean Fiber", "Raw Materials", "Fiber" >>,
       << "Short Fiber/Hurd Mix", "Raw Materials", "Fiber" >>,
       << "H1 Hurd - 3/4in", "Raw Materials", "Hurd" >>,
       << "H2 Hurd - 1/2in", "Raw Materials", "Hurd" >>,
       << "H3 Hurd - 1/16in", "Raw Materials", "Hurd" >>,
       << "2x24x48", "Products", "Insulation" >>,
       << "3.5x24x48", "Products", "Insulation" >>,
       << "5.5x24x48", "Products", "Insulation" >>,
       << "7.5x24x48", "Products", "Insulation" >>,
       << "1x24x48", "Products", "Acoustic Panels" >>,
       << "2x24x48", "Products", "Acoustic Panels" >>,
       << "4x24x48", "Products", "Acoustic Panels" >> >>

(***************************************************************************)
(* ensure_db_initialized, init_db, migrate_db, populate_skus               *)
(***************************************************************************)
SetProc(p, r) == proc' = [proc EXCEPT ![p] = r]

\* another thread's connection holds the SQLite write lock
WriteLockedByOther(p) ==
    /\ backend = "sqlite"
    /\ \E q \in DOMAIN proc : q # p /\ proc[q].tx.writing

EnsureCheckIgnoringFlag(p) ==
    /\ proc[p].pc = "idle"
    /\ SetProc(p, [proc[p] EXCEPT !.pc = "init_db"])
    /\ UNCHANGED << appVars, retry, backend, schema, contacts, companies, skus,
                    settings, seq, db_initialized, hist >>

\* `if not db_initialized:` at the head of ensure_db_initialized
EnsureCheck(p) ==
    /\ proc[p].pc = "idle"
    /\ SetProc(p, [proc[p] EXCEPT
                      !.pc = IF db_initialized THEN "ready" ELSE "init_db"])
    /\ UNCHANGED << appVars, retry, backend, schema, contacts, companies, skus,
                    settings, seq, db_initialized, hist >>

\* the rows of settings that hold key
SettingRows(st, key) == { id \in DOMAIN st : st[id].key = key }

\* the id a new settings row gets
NewSettingId(st) == IF DOMAIN st = {} THEN 1 ELSE Max(DOMAIN st) + 1

\* INSERT OR IGNORE / ON CONFLICT (key) DO NOTHING of the default goal:
\* key is UNIQUE, so the row is inserted only if no row holds the key
DefaultGoal == << "1", "0", "0", "0", "0", "0", "0" >>
InsertDefaultGoalUnchecked(st) ==
    (NewSettingId(st) :> [key |-> "annual_goal", value |-> DefaultGoal]) @@ st
InsertDefaultGoal(st) ==
    IF SettingRows(st, "annual_goal") # {}
      THEN st
      ELSE (NewSettingId(st) :> [key |-> "annual_goal", value |-> DefaultGoal])
           @@ st

\* init_db.  k = 0: every statement succeeds and the connection commits.
\* k > 0: the k-th CREATE TABLE raises; init_db has no handler, so the
\* exception leaves it with the connection neither committed nor closed.
InitDb(p, maxFault) ==
    /\ proc[p].pc = "init_db"
    /\ ~ WriteLockedByOther(p)
    /\ \E k \in 0..maxFault :
          IF k = 0
            THEN /\ schema' = CreateTables(schema, Len(TableOrder))
                 /\ settings' = InsertDefaultGoal(settings)
                 /\ SetProc(p, [proc[p] EXCEPT !.pc = "migrate_schema",
                                                !.missing0 = {},
                                                !.attempted = {},
                                                !.swallowed = {}])
            ELSE /\ schema' = IF backend = "sqlite"
                                THEN CreateTables(schema, k - 1)
                                ELSE schema
                 /\ settings' = settings
                 /\ SetProc(p, [proc[p] EXCEPT !.pc = "raised",
                                                !.missing0 = {},
                                                !.attempted = {},
                                                !.swallowed = {}])
    /\ UNCHANGED << appVars, retry, backend, contacts, companies, skus, seq,
                    db_initialized, hist >>

\* One `for col_name, col_type in <migrations>` loop of migrate_db over the
\* missing columns cols of table t.  F holds the ALTER statements that the
\* database refuses; the except clause swallows each refusal.
RECURSIVE AlterLoop(_, _, _, _)
AlterLoop(st, t, cols, F) ==
    IF cols = << >> THEN st
    ELSE LET col == Head(cols)
             fails == st.aborted \/ << t, col >> \in F
         IN  AlterLoop(
               [ st EXCEPT
                   !.schema = IF fails THEN @ ELSE [@ EXCEPT ![t] = @ \cup {col}],
                   !.attempted = @ \cup { << t, col >> },
                   !.swallowed = IF fails THEN @ \cup { << t, col >> } ELSE @,
                   !.aborted = @ \/ (fails /\ backend = "postgres") ],
               t, Tail(cols), F)

\* lines 246-338: for each of contacts, deals, activities, read the existing
\* columns and run the loop.  Reading the columns is a statement outside any
\* try block: in an aborted PostgreSQL transaction it raises.
RECURSIVE MigrateTables(_, _, _)
MigrateTables(st, ts, F) ==
    IF ts = << >> THEN st
    ELSE IF st.aborted THEN [st EXCEPT !.raised = TRUE]
    ELSE LET t == Head(ts)
         IN  MigrateTables(
               AlterLoop(st, t, MissingColumns(st.schema[t], MigrationsOf(t)), F),
               Tail(ts), F)

\* lines 217-338 of migrate_db: the companies table, then the column loops
MigrateSchema(p, maxFaults) ==
    /\ proc[p].pc = "migrate_schema"
    /\ LET seen == SchemaSeenBy(p)
           \* `if not companies_exists:` CREATE TABLE companies
           withCompanies == IF seen["companies"] = {}
                              THEN [seen EXCEPT !["companies"] = DDL["companies"]]
                              ELSE seen
       IN  \E F \in SubsetsUpTo(MissingPairs(withCompanies), maxFaults) :
             LET r == MigrateTables(
                        [ schema |-> withCompanies, attempted |-> {},
                          swallowed |-> {}, aborted |-> FALSE, raised |-> FALSE ],
                        MigratedTables, F)
             IN  /\ schema' = IF backend = "sqlite" THEN r.schema ELSE schema
                 /\ SetProc(p,
                      [ proc[p] EXCEPT
                          !.pc = IF r.raised THEN "raised" ELSE "backfill_select",
                          !.missing0 = MissingPairs(withCompanies),
                          !.attempted = r.attempted,
                          !.swallowed = r.swallowed,
                          !.tx = IF r.raised \/ backend = "sqlite" THEN NoTx
                                 ELSE [ NoTx EXCEPT
                                          !.cols = [t \in Tables |->
                                                      r.schema[t] \ schema[t]],
                                          !.aborted = r.aborted ] ])
    /\ UNCHANGED << appVars, retry, backend, contacts, companies, skus, settings, seq,
                    db_initialized, hist >>

(***************************************************************************)
(* The backfill of migrate_db (lines 340-399), one statement per step.     *)
(***************************************************************************)
\* WHERE company IS NOT NULL AND company != '' AND company_id IS NULL
NeedsBackfillIgnoringLink(row) ==
    row.company # NullText /\ row.company # << >>
NeedsBackfill(row) ==
    row.company # NullText /\ row.company # << >> /\ row.company_id = NullId

\* the rows (id, company) of the contacts ids, as fetchall() returns them
SelectedRows(ids) ==
    LET order == SetToSortedSeq(ids)
    IN  [ i \in 1..Len(order) |->
            [id |-> order[i], company |-> contacts[order[i]].company] ]

\* lines 343-349: contacts_with_companies = c.fetchall().  The statement
\* names company_id: without that column, or in an aborted transaction, it
\* raises and migrate_db ends without commit.
BackfillSelect(p) ==
    /\ proc[p].pc = "backfill_select"
    /\ IF proc[p].tx.aborted \/ "company_id" \notin SchemaSeenBy(p)["contacts"]
         THEN SetProc(p, [proc[p] EXCEPT !.pc = "raised", !.tx = NoTx])
         ELSE SetProc(p,
                [ proc[p] EXCEPT
                    !.pc = "backfill_loop",
                    !.rows = SelectedRows(
                               { c \in DOMAIN contacts : NeedsBackfill(contacts[c]) }),
                    !.company_map = EmptyFn,
                    !.created = {},
                    !.snap = [contacts |-> contacts, companies |-> companies] ])
    /\ UNCHANGED << appVars, retry, backend, schema, contacts, companies, skus,
                    settings, seq, db_initialized, hist >>

\* SELECT id FROM companies WHERE name = ?
CompaniesNamedNone(p, name) == {}
CompaniesNamed(p, name) ==
    { id \in DOMAIN CompaniesSeenBy(p) : CompaniesSeenBy(p)[id] = name }

\* `if company_name in company_map`
InCompanyMap(map, name) == name \in DOMAIN map

\* lines 355-376: the head of the loop body, up to the lookup by name
BackfillRow(p) ==
    /\ proc[p].pc = "backfill_loop"
    /\ proc[p].rows # << >>
    /\ LET cid == Head(proc[p].rows).id
           name == Strip(Head(proc[p].rows).company)
           base == [proc[p] EXCEPT !.contact_id = cid, !.company_name = name]
       IN  IF name = << >>
             THEN \* `continue`
                  SetProc(p, [base EXCEPT !.rows = Tail(@)])
           ELSE IF InCompanyMap(proc[p].company_map, name)
             THEN SetProc(p, [base EXCEPT !.company_id = proc[p].company_map[name],
                                          !.pc = "backfill_link"])
           ELSE IF CompaniesNamed(p, name) = {}
             THEN SetProc(p, [base EXCEPT !.pc = "backfill_insert"])
           ELSE \* fetchone(): SQLite scans in rowid order, PostgreSQL in any
                \E id \in CompaniesNamed(p, name) :
                   /\ backend = "sqlite" => id = Min(CompaniesNamed(p, name))
                   /\ SetProc(p, [base EXCEPT
                                    !.company_id = id,
                                    !.company_map = (name :> id) @@ @,
                                    !.pc = "backfill_link"])
    /\ UNCHANGED << appVars, retry, backend, schema, contacts, companies, skus,
                    settings, seq, db_initialized, hist >>

\* the id the INSERT gives the new row: the next value of the SERIAL
\* sequence, or one more than the largest rowid of the table
NewCompanyId(p) ==
    IF backend = "postgres" THEN seq.companies + 1
    ELSE IF DOMAIN CompaniesSeenBy(p) = {} THEN 1
    ELSE Max(DOMAIN CompaniesSeenBy(p)) + 1

\* lines 378-388: INSERT INTO companies (name) and company_map[name] = id
BackfillInsert(p) ==
    /\ proc[p].pc = "backfill_insert"
    /\ ~ WriteLockedByOther(p)
    /\ LET id == NewCompanyId(p)
           name == proc[p].company_name
       IN  /\ SetProc(p,
                [ proc[p] EXCEPT
                    !.tx.companies = (id :> name) @@ @,
                    !.tx.writing = (backend = "sqlite"),
                    !.company_id = id,
                    !.company_map = (name :> id) @@ @,
                    !.created = @ \cup {id},
                    !.pc = "backfill_link" ])
           /\ seq' = IF backend = "postgres"
                       THEN [seq EXCEPT !.companies = id] ELSE seq
    /\ UNCHANGED << appVars, retry, backend, schema, contacts, companies, skus,
                    settings, db_initialized, hist >>

\* a row lock of PostgreSQL: another transaction updated the row
RowLockedByOther(p, cid) ==
    /\ backend = "postgres"
    /\ \E q \in DOMAIN proc : q # p /\ cid \in DOMAIN proc[q].tx.links

\* lines 390-394: UPDATE contacts SET company_id = ? WHERE id = ?
BackfillLink(p) ==
    /\ proc[p].pc = "backfill_link"
    /\ ~ WriteLockedByOther(p)
    /\ ~ RowLockedByOther(p, proc[p].contact_id)
    /\ SetProc(p,
         [ proc[p] EXCEPT
             !.tx.links = (proc[p].contact_id :> proc[p].company_id) @@ @,
             !.tx.writing = (backend = "sqlite"),
             !.rows = Tail(@),
             !.pc = "backfill_loop" ])
    /\ UNCHANGED << appVars, retry, backend, schema, contacts, companies, skus,
                    settings, seq, db_initialized, hist >>

\* what conn.commit() makes of the committed rows
CommitContacts(p) ==
    [ c \in DOMAIN contacts |->
        IF c \in DOMAIN proc[p].tx.links
          THEN [contacts[c] EXCEPT !.company_id = proc[p].tx.links[c]]
          ELSE contacts[c] ]

\* lines 396-399: the loop is over; conn.commit(); conn.close()
MigrateCommit(p) ==
    /\ proc[p].pc = "backfill_loop"
    /\ proc[p].rows = << >>
    /\ schema' = SchemaSeenBy(p)
    /\ companies' = CompaniesSeenBy(p)
    /\ contacts' = CommitContacts(p)
    /\ SetProc(p, [proc[p] EXCEPT !.tx = NoTx, !.pc = "populate_skus"])
    /\ hist' = [ hist EXCEPT
                   !.runs = IF @ < MaxRuns THEN @ + 1 ELSE @,
                   !.after1 = IF hist.runs = 0 THEN SchemaSeenBy(p) ELSE @,
                   !.clean1 = IF hist.runs = 0 THEN proc[p].swallowed = {} ELSE @,
                   !.cleanRuns = IF @ < MaxCleanRuns THEN @ + 1 ELSE @ ]
    /\ UNCHANGED << appVars, retry, backend, skus, settings, seq, db_initialized >>

\* populate_skus: every INSERT is tried; a UNIQUE violation is swallowed.
\* In PostgreSQL the first violation aborts the transaction, so the later
\* INSERTs fail too and commit() ends the transaction without effect.
SkuTriples(rows) == { rows[id] : id \in DOMAIN rows }

\* the id of the next row (ids are only compared for equality; the gaps a
\* PostgreSQL sequence leaves after a refused INSERT are not kept)
NewSkuId(rows) == IF DOMAIN rows = {} THEN 1 ELSE Max(DOMAIN rows) + 1

InsertSkuUnchecked(rows, t) == (NewSkuId(rows) :> t) @@ rows

\* one INSERT INTO skus inside try/except: UNIQUE(name, category,
\* subcategory) refuses a triple that is present, and the error is dropped
InsertSku(rows, t) ==
    IF t \in SkuTriples(rows) THEN rows ELSE (NewSkuId(rows) :> t) @@ rows

RECURSIVE SeedLoop(_, _)
\* `for sku_name, category, subcategory in skus:` from entry i on
SeedLoop(rows, i) ==
    IF i > Len(SkuCatalog) THEN rows
    ELSE SeedLoop(InsertSku(rows, SkuCatalog[i]), i + 1)

\* the loop and the commit.  In PostgreSQL the first refused INSERT aborts
\* the transaction: the INSERTs after it fail too and commit() rolls the
\* ones before it back
SeedSkus(rows) ==
    IF backend = "postgres" /\ SkuTriples(rows) \cap SeqToSet(SkuCatalog) # {}
      THEN rows
      ELSE SeedLoop(rows, 1)

PopulateSkus(p) ==
    /\ proc[p].pc = "populate_skus"
    /\ ~ WriteLockedByOther(p)
    /\ skus' = SeedSkus(skus)
    /\ hist' = [hist EXCEPT
                   !.skus1 = IF hist.seeds = 0 THEN skus' ELSE @,
                   !.seeds = IF @ < MaxRuns THEN @ + 1 ELSE @]
    /\ SetProc(p, [proc[p] EXCEPT !.pc = "set_flag"])
    /\ UNCHANGED << appVars, retry, backend, schema, contacts, companies, settings,
                    seq, db_initialized >>

\* db_initialized = True, and ensure_db_initialized returns: the locals of
\* the three functions are gone (the record of the rows the pass inserted
\* is kept while other threads run)
SetFlag(p) ==
    /\ proc[p].pc = "set_flag"
    /\ db_initialized' = TRUE
    /\ SetProc(p, [ProcIdle EXCEPT
                      !.pc = "ready",
                      !.created = IF DOMAIN proc = {p} THEN {}
                                  ELSE proc[p].created])
    /\ UNCHANGED << appVars, retry, backend, schema, contacts, companies, skus,
                    settings, seq, hist >>

\* the next GET / of a thread whose last one was answered (200 or 500)
NewRequest(p) ==
    /\ proc[p].pc \in {"ready", "raised"}
    /\ SetProc(p, [proc[p] EXCEPT !.pc = "idle"])
    /\ UNCHANGED << appVars, retry, backend, schema, contacts, companies, skus,
                    settings, seq, db_initialized, hist >>

Quiescent == \A p \in DOMAIN proc : proc[p].pc \in {"idle", "ready", "raised"}

\* the server process is started again: the module is loaded afresh
Restart ==
    /\ \A p \in DOMAIN proc : proc[p].pc \in {"ready", "raised"}
    /\ db_initialized' = FALSE
    /\ proc' = [p \in DOMAIN proc |-> ProcIdle]
    /\ last' = [ op |-> "none", id |-> 0, args |-> << >>, status |-> 0,
                 body |-> << >> ]
    /\ UNCHANGED << deals, deal_skus, tasks, documents, today, conns, handler,
                    retry, backend, schema, contacts, companies, skus,
                    settings, seq, hist >>

(***************************************************************************)
(* Request handlers that write contacts and companies.  Each runs its      *)
(* statements on a connection of its own and commits.                      *)
(***************************************************************************)
\* the values a request body carries for contacts.company
ContactCompanyTexts ==
    { NullText, << >>, << " ", "\t" >>, << "A" >>, << " ", "A", "\t" >>, << "B" >> }

\* the values a request body carries for companies.name
CompanyNames == { << "A" >>, << "B" >> }

NewContactId ==
    IF backend = "postgres" THEN seq.contacts + 1
    ELSE IF DOMAIN contacts = {} THEN 1
    ELSE Max(DOMAIN contacts) + 1

NewCommittedCompanyId ==
    IF backend = "postgres" THEN seq.companies + 1
    ELSE IF DOMAIN companies = {} THEN 1
    ELSE Max(DOMAIN companies) + 1

\* FOREIGN KEY(company_id) REFERENCES companies(id): PostgreSQL enforces it;
\* the SQLite connections of get_db never enable foreign keys
ForeignKeyHolds(company_id) ==
    \/ backend = "sqlite"
    \/ company_id = NullId
    \/ company_id \in DOMAIN companies

ApiWrite == hist' = [hist EXCEPT !.cleanRuns = 0]

\* POST /api/contacts
add_contact(text, company_id) ==
    /\ Quiescent
    /\ NewContactId <= MaxContactId
    /\ contacts' = IF ForeignKeyHolds(company_id)
                     THEN (NewContactId :>
                             [company |-> text, company_id |-> company_id])
                          @@ contacts
                     ELSE contacts
    /\ seq' = IF backend = "postgres"
                THEN [seq EXCEPT !.contacts = @ + 1] ELSE seq
    /\ ApiWrite
    /\ UNCHANGED << appVars, retry, backend, schema, companies, skus, settings,
                    db_initialized, proc >>

\* PUT /api/contacts/<contact_id>
update_contact(contact_id, text, company_id) ==
    /\ Quiescent
    /\ contact_id \in DOMAIN contacts
    /\ contacts' = IF ForeignKeyHolds(company_id)
                     THEN [contacts EXCEPT ![contact_id] =
                             [company |-> text, company_id |-> company_id]]
                     ELSE contacts
    /\ ApiWrite
    /\ UNCHANGED << appVars, retry, backend, schema, companies, skus, settings, seq,
                    db_initialized, proc >>

\* POST /api/companies
add_company(name) ==
    /\ Quiescent
    /\ NewCommittedCompanyId <= MaxCompanyId
    /\ companies' = (NewCommittedCompanyId :> name) @@ companies
    /\ seq' = IF backend = "postgres"
                THEN [seq EXCEPT !.companies = @ + 1] ELSE seq
    /\ ApiWrite
    /\ UNCHANGED << appVars, retry, backend, schema, contacts, skus, settings,
                    db_initialized, proc >>

\* the response of a handler, and the rows its statements matched
Answer(op, id, args, status, body) ==
    [ op |-> op, id |-> id, args |-> args, status |-> status, body |-> body ]

delete_company_cascading(company_id) ==
    /\ Quiescent
    /\ contacts' = [ c \in { k \in DOMAIN contacts :
                                contacts[k].company_id # company_id } |->
                       contacts[c] ]
    /\ companies' = [ id \in DOMAIN companies \ {company_id} |-> companies[id] ]
    /\ ApiWrite
    /\ last' = Answer("delete_company", company_id,
                      { k \in DOMAIN contacts :
                          contacts[k].company_id = company_id }, 200, << >>)
    /\ UNCHANGED << deals, deal_skus, tasks, documents, today, conns, handler,
                    retry, backend, schema, skus, settings, seq,
                    db_initialized, proc >>

\* DELETE /api/companies/<company_id>: UPDATE contacts SET company_id = NULL
\* WHERE company_id = ?, DELETE FROM companies WHERE id = ?, commit.  (No
\* document refers to a company in the runs of this handler, so the DELETE
\* is never refused by the foreign key of documents.)
delete_company(company_id) ==
    /\ Quiescent
    /\ contacts' = [ c \in DOMAIN contacts |->
                       IF contacts[c].company_id = company_id
                         THEN [contacts[c] EXCEPT !.company_id = NullId]
                         ELSE contacts[c] ]
    /\ companies' = [ id \in DOMAIN companies \ {company_id} |-> companies[id] ]
    /\ ApiWrite
    /\ last' = Answer("delete_company", company_id,
                      { k \in DOMAIN contacts :
                          contacts[k].company_id = company_id }, 200, << >>)
    /\ UNCHANGED << deals, deal_skus, tasks, documents, today, conns, handler,
                    retry, backend, schema, skus, settings, seq,
                    db_initialized, proc >>

(***************************************************************************)
(* Specifications                                                          *)
(***************************************************************************)
HistInit(s) ==
    [ schema0 |-> s, runs |-> 0, after1 |-> s, clean1 |-> TRUE, cleanRuns |-> 0,
      skus0 |-> skus, skus1 |-> skus, seeds |-> 0 ]

\* no request is being handled
HandlerIdle ==
    [ op |-> "none", pc |-> "idle", conn |-> 0, status |-> 0,
      args |-> << >>, before |-> << >> ]

\* no request was answered yet: the handlers' tables are empty
NoRequest == [ op |-> "none", id |-> 0, args |-> << >>, status |-> 0,
               body |-> << >> ]

AppAtRest ==
    /\ deals = EmptyFn
    /\ deal_skus = EmptyFn
    /\ tasks = EmptyFn
    /\ documents = EmptyFn
    /\ today = 0
    /\ conns = {}
    /\ handler = HandlerIdle
    /\ last = NoRequest

DbAtRest ==
    /\ backend = "sqlite"
    /\ schema = CreateTables(NoTables, Len(TableOrder))
    /\ contacts = EmptyFn
    /\ companies = EmptyFn
    /\ skus = EmptyFn
    /\ settings = EmptyFn
    /\ seq = [contacts |-> 0, companies |-> 0, deals |-> 0]
    /\ db_initialized = FALSE
    /\ proc = [p \in {1} |-> ProcIdle]
    /\ hist = HistInit(schema)
    /\ AppAtRest

\* -- execute_with_retry alone
InitRetry == retry = RetryIdle /\ DbAtRest

NextRetry ==
    \/ RetryEnter
    \/ RetryFuncReturns
    \/ RetryFuncRaises
    \/ RetryExcept

SpecRetry == InitRetry /\ [][NextRetry]_vars

\* -- the reconciler on the databases earlier revisions left behind
\* the deals tables of earlier revisions, by the columns they lack
DealsLegacyMissing ==
    { {},
      { "closed_revenue", "expected_close_date" },
      SeqToSet(deals_migrations) \ { "contact_id", "value", "stage" } }

StartSchemas ==
    { NoTables } \cup
    { [ t \in Tables |->
          CASE t = "contacts" -> DDL[t] \ mc
            [] t = "deals" -> DDL[t] \ md
            [] t = "activities" -> DDL[t] \ ma
            [] OTHER -> IF rest THEN DDL[t] ELSE {} ] :
        mc \in SUBSET SeqToSet(contacts_migrations),
        md \in DealsLegacyMissing,
        ma \in SUBSET SeqToSet(activities_migrations),
        rest \in BOOLEAN }

LegacyContact == [company |-> << " ", "A", "\t" >>, company_id |-> NullId]

InitReconcile ==
    /\ retry = RetryIdle
    /\ backend \in {"sqlite", "postgres"}
    /\ schema \in StartSchemas
    /\ contacts = IF schema["contacts"] = {} THEN EmptyFn ELSE (1 :> LegacyContact)
    /\ companies = EmptyFn
    /\ skus = EmptyFn
    /\ settings = EmptyFn
    /\ seq = [contacts |-> Cardinality(DOMAIN contacts), companies |-> 0,
            deals |-> 0]
    /\ db_initialized = FALSE
    /\ proc = [p \in {1} |-> ProcIdle]
    /\ hist = HistInit(schema)
    /\ AppAtRest

RestartBounded == hist.runs < MaxRuns /\ Restart

NextReconcile ==
    \/ \E p \in DOMAIN proc : EnsureCheck(p)
    \/ \E p \in DOMAIN proc : InitDb(p, Len(TableOrder))
    \/ \E p \in DOMAIN proc : MigrateSchema(p, MaxAlterFaults)
    \/ \E p \in DOMAIN proc : BackfillSelect(p)
    \/ \E p \in DOMAIN proc : BackfillRow(p)
    \/ \E p \in DOMAIN proc : BackfillInsert(p)
    \/ \E p \in DOMAIN proc : BackfillLink(p)
    \/ \E p \in DOMAIN proc : MigrateCommit(p)
    \/ \E p \in DOMAIN proc : PopulateSkus(p)
    \/ \E p \in DOMAIN proc : SetFlag(p)
    \/ \E p \in DOMAIN proc : NewRequest(p)
    \/ RestartBounded

SpecReconcile == InitReconcile /\ [][NextReconcile]_vars


\* -- one server process at a time: requests, then a boot, then requests
InitBackfill ==
    /\ retry = RetryIdle
    /\ backend \in {"sqlite", "postgres"}
    /\ schema = CreateTables(NoTables, Len(TableOrder))
    /\ contacts = EmptyFn
    /\ companies = EmptyFn
    /\ skus = EmptyFn
    /\ settings = EmptyFn
    /\ seq = [contacts |-> 0, companies |-> 0, deals |-> 0]
    /\ db_initialized = FALSE
    /\ proc = [p \in {1} |-> ProcIdle]
    \* the runs are counted for the reconciler's claims only
    /\ hist = [HistInit(schema) EXCEPT !.runs = MaxRuns, !.seeds = MaxRuns]
    /\ AppAtRest

\* the company ids some row mentions (a DELETE of any other id matches no
\* row of either table)
MentionedCompanyIds ==
    (DOMAIN companies
       \cup { contacts[k].company_id : k \in DOMAIN contacts }) \ {NullId}

\* the ids a pass may allocate stay within the ids the model holds
RoomForBackfill ==
    (NewCommittedCompanyId - 1)
      + Cardinality({ c \in DOMAIN contacts : NeedsBackfill(contacts[c]) })
        <= MaxCompanyId + MaxContactId

FirstRequest(p) == RoomForBackfill /\ EnsureCheck(p)

NextBackfill ==
    \/ \E p \in DOMAIN proc : FirstRequest(p)
    \/ \E p \in DOMAIN proc : InitDb(p, 0)
    \/ \E p \in DOMAIN proc : MigrateSchema(p, 0)
    \/ \E p \in DOMAIN proc : BackfillSelect(p)
    \/ \E p \in DOMAIN proc : BackfillRow(p)
    \/ \E p \in DOMAIN proc : BackfillInsert(p)
    \/ \E p \in DOMAIN proc : BackfillLink(p)
    \/ \E p \in DOMAIN proc : MigrateCommit(p)
    \/ \E p \in DOMAIN proc : PopulateSkus(p)
    \/ \E p \in DOMAIN proc : SetFlag(p)
    \/ Restart
    \/ \E text \in ContactCompanyTexts, id \in 0..MaxCompanyId :
          add_contact(text, id)
    \/ \E name \in CompanyNames : add_company(name)
    \/ \E id \in MentionedCompanyIds : delete_company(id)

SpecBackfill == InitBackfill /\ [][NextBackfill]_vars

\* -- two first requests of one process at the same time
LegacyTexts == { << "A" >>, << " ", "A", "\t" >>, << "B" >> }

InitConcurrent ==
    /\ retry = RetryIdle
    /\ backend \in {"sqlite", "postgres"}
    /\ schema = CreateTables(NoTables, Len(TableOrder))
    /\ \E t1 \in LegacyTexts, t2 \in LegacyTexts :
          contacts = (1 :> [company |-> t1, company_id |-> NullId])
                     @@ (2 :> [company |-> t2, company_id |-> NullId])
    /\ companies \in { EmptyFn, (1 :> << "A" >>) }
    /\ skus = EmptyFn
    /\ settings = EmptyFn
    /\ seq = [contacts |-> 2, companies |-> Cardinality(DOMAIN companies),
            deals |-> 0]
    /\ db_initialized = FALSE
    /\ proc = [p \in 1..NumThreads |-> ProcIdle]
    /\ hist = [HistInit(schema) EXCEPT !.runs = MaxRuns, !.seeds = MaxRuns]
    /\ AppAtRest

NextConcurrent ==
    \/ \E p \in DOMAIN proc : EnsureCheck(p)
    \/ \E p \in DOMAIN proc : InitDb(p, 0)
    \/ \E p \in DOMAIN proc : MigrateSchema(p, 0)
    \/ \E p \in DOMAIN proc : BackfillSelect(p)
    \/ \E p \in DOMAIN proc : BackfillRow(p)
    \/ \E p \in DOMAIN proc : BackfillInsert(p)
    \/ \E p \in DOMAIN proc : BackfillLink(p)
    \/ \E p \in DOMAIN proc : MigrateCommit(p)
    \/ \E p \in DOMAIN proc : PopulateSkus(p)
    \/ \E p \in DOMAIN proc : SetFlag(p)

SpecConcurrent == InitConcurrent /\ [][NextConcurrent]_vars

(***************************************************************************)
(* Claims about execute_with_retry (checked under SpecRetry)               *)
(***************************************************************************)
\* what the claims call a retryable error: the message, lower-cased,
\* contains 'locked' or 'deadlock'
MentionsLockedOrDeadlock(e) ==
    \/ Contains(<< "l", "o", "c", "k", "e", "d" >>, Lower(e))
    \/ Contains(<< "d", "e", "a", "d", "l", "o", "c", "k" >>, Lower(e))

RetryReturnedOrRaised == retry.pc \in {"returned", "raised"}

SumSeq(s) ==
    LET RECURSIVE Sum(_)
        Sum(i) == IF i = 0 THEN 0 ELSE s[i] + Sum(i - 1)
    IN  Sum(Len(s))

\* C5: execute_with_retry invokes the wrapped operation at most 5 times; it
\* returns the value of the first attempt that succeeds and never invokes the
\* operation after that; when all 5 attempts fail with retryable errors the
\* error of the 5th attempt is the one that propagates.
C5_AtMostFiveAttempts ==
    /\ retry.calls <= 5
    /\ retry.calls = Len(retry.errs) + (IF retry.pc = "returned" THEN 1 ELSE 0)
    /\ retry.pc = "returned" =>
          /\ retry.result = << "value", Len(retry.errs) >>
          /\ \A i \in 1..Len(retry.errs) : MentionsLockedOrDeadlock(retry.errs[i])
    /\ RetryReturnedOrRaised => ~ ENABLED (RetryFuncReturns \/ RetryFuncRaises)
    /\ Len(retry.errs) = 5 =>
          /\ retry.pc \in {"except", "raised"}
          /\ retry.pc = "raised" => retry.raised = retry.errs[5]

C5_Witness ==
    /\ retry.pc = "raised"
    /\ Len(retry.errs) = 5
    /\ \A i \in 1..5 : MentionsLockedOrDeadlock(retry.errs[i])
    /\ retry.raised = retry.errs[5]

\* C6: an attempt that fails with an error mentioning neither 'locked' nor
\* 'deadlock' propagates that same error at once: no sleep follows it and
\* the operation is not invoked again, whichever attempt it is.
C6_NonRetryablePropagates ==
    (/\ Len(retry.errs) > 0
     /\ ~ MentionsLockedOrDeadlock(retry.errs[Len(retry.errs)])) =>
        /\ retry.pc \in {"except", "raised"}
        /\ retry.calls = Len(retry.errs)
        /\ Len(retry.sleeps) = Len(retry.errs) - 1
        /\ retry.pc = "raised" =>
              /\ retry.raised = retry.errs[Len(retry.errs)]
              /\ ~ ENABLED (RetryFuncReturns \/ RetryFuncRaises)

C6_Witness ==
    /\ retry.pc = "raised"
    /\ Len(retry.errs) = 3
    /\ ~ MentionsLockedOrDeadlock(retry.raised)
    /\ retry.sleeps = << 1, 2 >>

InitDbStep ==
    \E p \in DOMAIN proc : proc[p].pc = "init_db" /\ proc'[p].pc # "init_db"

\* C9: the reconciler only adds.  No step removes a table or a column of the
\* committed schema, and the create-if-absent statements of init_db leave
\* every table that already exists with the columns it had.
C9_OnlyAdds ==
    [][ /\ \A t \in Tables : schema[t] \subseteq schema'[t]
        /\ InitDbStep => \A t \in Tables : schema[t] # {} => schema'[t] = schema[t]
      ]_vars

C9_Witness ==
    /\ hist.runs >= 1
    /\ hist.schema0["contacts"] # {}
    /\ hist.schema0["contacts"] # DDL["contacts"]
    /\ hist.schema0["settings"] = {}
    /\ schema["contacts"] = DDL["contacts"]
    /\ schema["settings"] = DDL["settings"]

\* C10: a refused ALTER TABLE ADD COLUMN is swallowed and migrate_db goes on:
\* it attempts every remaining missing column of contacts, deals and
\* activities and then runs the backfill and commits (it does not raise);
\* and a run that raised has not set db_initialized.
C10_AlterFailureNotFatal ==
    \A p \in DOMAIN proc :
        /\ (proc[p].swallowed # {} /\ proc[p].pc # "migrate_schema") =>
              /\ proc[p].pc # "raised"
              /\ proc[p].attempted = proc[p].missing0
        /\ (proc[p].pc = "raised" /\ DOMAIN proc = {p}) => ~ db_initialized


(***************************************************************************)
(* Claims about the backfill (checked under SpecBackfill, C4 under         *)
(* SpecConcurrent)                                                         *)
(***************************************************************************)
Whitespace == { " ", "\t", "\n" }

\* the text between the first and the last character that is not whitespace
Trimmed(s) ==
    LET keep == { i \in 1..Len(s) : s[i] \notin Whitespace }
    IN  IF keep = {} THEN << >> ELSE SubSeq(s, Min(keep), Max(keep))

\* a company field that is non-empty and not only whitespace
HasCompanyText(row) == row.company # NullText /\ Trimmed(row.company) # << >>

\* migrate_db has just committed in thread p
PassCompleted(p) == proc[p].pc = "populate_skus"

\* thread p is between the SELECT of the backfill and its commit
InPass(p) == proc[p].pc \in {"backfill_loop", "backfill_insert", "backfill_link"}

LinkedToOwnCompany(c) ==
    /\ contacts[c].company_id # NullId
    /\ contacts[c].company_id \in DOMAIN companies
    /\ companies[contacts[c].company_id] = Trimmed(contacts[c].company)

\* C1 as stated: after a backfill pass every contact with a company text has
\* a company_id naming an existing company called by the trimmed text, and
\* contacts with equal trimmed texts have equal company_ids.
C1_AsStated ==
    \A p \in DOMAIN proc : PassCompleted(p) =>
        LET named == { c \in DOMAIN contacts : HasCompanyText(contacts[c]) }
        IN  /\ \A c \in named : LinkedToOwnCompany(c)
            /\ \A c, d \in named :
                  Trimmed(contacts[c].company) = Trimmed(contacts[d].company)
                     => contacts[c].company_id = contacts[d].company_id

\* the contacts the pass of thread p was for: a company text, and no
\* company_id when the pass began
Unlinked(p) ==
    { c \in DOMAIN proc[p].snap.contacts :
        /\ HasCompanyText(proc[p].snap.contacts[c])
        /\ proc[p].snap.contacts[c].company_id = NullId }

\* C1 as amended: after a backfill pass every contact that had a company
\* text and no company_id when the pass began has a company_id naming an
\* existing company called by the trimmed text, and two such contacts with
\* equal trimmed texts have equal company_ids.
C1_BackfillLinksUnlinked ==
    \A p \in DOMAIN proc : PassCompleted(p) =>
        /\ \A c \in Unlinked(p) : c \in DOMAIN contacts /\ LinkedToOwnCompany(c)
        /\ \A c, d \in Unlinked(p) :
              Trimmed(contacts[c].company) = Trimmed(contacts[d].company)
                 => contacts[c].company_id = contacts[d].company_id

C1_Witness ==
    \E p \in DOMAIN proc :
        /\ PassCompleted(p)
        /\ \E c, d \in Unlinked(p) :
              /\ c # d
              /\ contacts[c].company # contacts[d].company
              /\ contacts[c].company_id = contacts[d].company_id
              /\ LinkedToOwnCompany(c) /\ LinkedToOwnCompany(d)

\* C2: a backfill pass never modifies a contact whose company_id was set
\* when the pass began, and a pass that follows a completed pass with no
\* request in between changes no contact row and creates no company row.
C2_BackfillIdempotent ==
    \A p \in DOMAIN proc :
        /\ (InPass(p) \/ PassCompleted(p)) =>
              \A c \in DOMAIN proc[p].snap.contacts :
                 proc[p].snap.contacts[c].company_id # NullId =>
                    /\ c \notin DOMAIN proc[p].tx.links
                    /\ contacts[c] = proc[p].snap.contacts[c]
        /\ (InPass(p) /\ hist.cleanRuns >= 1) =>
              /\ proc[p].tx.links = EmptyFn
              /\ proc[p].tx.companies = EmptyFn
              /\ proc[p].created = {}
        /\ (PassCompleted(p) /\ hist.cleanRuns >= 2) =>
              /\ contacts = proc[p].snap.contacts
              /\ companies = proc[p].snap.companies

C2_Witness ==
    \E p \in DOMAIN proc :
        /\ PassCompleted(p)
        /\ hist.cleanRuns >= 2
        /\ \E c \in DOMAIN contacts : LinkedToOwnCompany(c)
        /\ \E c \in DOMAIN contacts :
              contacts[c].company_id = NullId /\ contacts[c].company = << " ", "\t" >>

\* the companies called name among the rows rs
Named(rs, name) == { id \in DOMAIN rs : rs[id] = name }

\* C3: in a pass that runs alone, a company is inserted for a trimmed name
\* only when no company has that name at that moment; otherwise the id of
\* an existing one is used.  So the pass adds no company under a name that
\* was there when it began, and at most one company per trimmed name.
C3_InsertOnlyIfAbsent ==
    \A p \in DOMAIN proc :
        /\ proc[p].pc = "backfill_insert" =>
              /\ Named(CompaniesSeenBy(p), proc[p].company_name) = {}
              /\ proc[p].company_name = Trimmed(proc[p].company_name)
        /\ (InPass(p) \/ PassCompleted(p)) =>
              /\ \A id \in DOMAIN proc[p].snap.companies :
                    Named(CompaniesSeenBy(p), proc[p].snap.companies[id])
                       = Named(proc[p].snap.companies, proc[p].snap.companies[id])
              /\ \A i, j \in proc[p].created :
                    i # j => CompaniesSeenBy(p)[i] # CompaniesSeenBy(p)[j]
              /\ \A c \in DOMAIN proc[p].tx.links :
                    Named(proc[p].snap.companies,
                          Trimmed(proc[p].snap.contacts[c].company)) # {}
                       => proc[p].tx.links[c] \in DOMAIN proc[p].snap.companies

C3_Witness ==
    \E p \in DOMAIN proc :
        /\ PassCompleted(p)
        /\ proc[p].created # {}
        /\ \E c \in Unlinked(p) :
              contacts[c].company_id \in DOMAIN proc[p].snap.companies
        /\ \E c \in Unlinked(p) : contacts[c].company_id \in proc[p].created

\* C4: with two passes at the same time, two committed companies of one
\* name are reachable (C4_Witness); and whenever two committed companies
\* share a name, they were inserted by two different passes, each of which
\* had looked the name up and found none.
C4_DuplicatesNeedTwoPasses ==
    \A i, j \in DOMAIN companies :
        (i # j /\ companies[i] = companies[j]) =>
            \E p, q \in DOMAIN proc :
                /\ p # q
                /\ i \in proc[p].created
                /\ j \in proc[q].created

C4_Witness ==
    \E i, j \in DOMAIN companies :
        /\ i # j
        /\ companies[i] = companies[j]
        /\ \A p \in DOMAIN proc : proc[p].pc = "ready"

(***************************************************************************)
(* The SKU seeder on the skus tables earlier seedings left behind          *)
(***************************************************************************)
\* the rows of a skus table that holds the catalog entries numbered in S
LegacySkus(S) ==
    LET order == SetToSortedSeq(S)
    IN  [ id \in 1..Len(order) |-> SkuCatalog[order[id]] ]

InitSkus ==
    /\ retry = RetryIdle
    /\ backend \in {"sqlite", "postgres"}
    /\ schema = CreateTables(NoTables, Len(TableOrder))
    /\ contacts = EmptyFn
    /\ companies = EmptyFn
    /\ skus \in { LegacySkus(S) : S \in SUBSET (1..Len(SkuCatalog)) }
    /\ settings = EmptyFn
    /\ seq = [contacts |-> 0, companies |-> 0, deals |-> 0]
    /\ db_initialized = FALSE
    /\ proc = [p \in {1} |-> ProcIdle]
    /\ hist = HistInit(schema)
    /\ AppAtRest

RestartSeeding == hist.seeds < MaxRuns /\ Restart

NextSkus ==
    \/ \E p \in DOMAIN proc : EnsureCheck(p)
    \/ \E p \in DOMAIN proc : InitDb(p, 0)
    \/ \E p \in DOMAIN proc : MigrateSchema(p, 0)
    \/ \E p \in DOMAIN proc : BackfillSelect(p)
    \/ \E p \in DOMAIN proc : MigrateCommit(p)
    \/ \E p \in DOMAIN proc : PopulateSkus(p)
    \/ \E p \in DOMAIN proc : SetFlag(p)
    \/ RestartSeeding

SpecSkus == InitSkus /\ [][NextSkus]_vars

(***************************************************************************)
(* Claims about populate_skus (checked under SpecSkus)                     *)
(***************************************************************************)
NoDuplicateSkus ==
    \A i, j \in DOMAIN skus : i # j => skus[i] # skus[j]

SeededTwiceFromEmpty == hist.skus0 = EmptyFn /\ hist.seeds >= 2

C12_SeedCompletesCatalog ==
    hist.seeds >= 1 =>
        /\ \A i \in 1..Len(SkuCatalog) :
              Cardinality({ id \in DOMAIN skus : skus[id] = SkuCatalog[i] }) = 1
        /\ \A id \in DOMAIN hist.skus0 :
              id \in DOMAIN skus /\ skus[id] = hist.skus0[id]

(***************************************************************************)
(* Claims about delete_company (checked under SpecBackfill)                *)
(***************************************************************************)
CompanyIds == 1..(MaxCompanyId + MaxContactId)

\* C13: a delete_company(c) that succeeds removes the company row c, keeps
\* every contact, sets company_id to null on exactly the contacts that had
\* company_id = c, leaves their free-text company field untouched, and
\* leaves the contacts linked to other companies and the other companies
\* as they were.
C13_DeleteCompanyNullsLinks ==
    [][ \A c \in CompanyIds :
          delete_company(c) =>
            /\ c \notin DOMAIN companies'
            /\ \A id \in DOMAIN companies \ {c} :
                  id \in DOMAIN companies' /\ companies'[id] = companies[id]
            /\ DOMAIN contacts' = DOMAIN contacts
            /\ \A k \in DOMAIN contacts :
                  /\ contacts'[k].company = contacts[k].company
                  /\ contacts'[k].company_id =
                        IF contacts[k].company_id = c THEN NullId
                        ELSE contacts[k].company_id ]_vars

\* a company with two linked contacts was deleted: both contacts are still
\* there, unlinked, with their company text
C13_Witness ==
    /\ last.op = "delete_company"
    /\ last.status = 200
    /\ Cardinality(last.args) = 2
    /\ last.id \notin DOMAIN companies
    /\ \A k \in last.args :
          /\ k \in DOMAIN contacts
          /\ contacts[k].company_id = NullId
          /\ contacts[k].company # NullText

\* a company was deleted while a contact was linked to another company
C13_WitnessOther ==
    /\ last.op = "delete_company"
    /\ last.args # {}
    /\ \E k \in DOMAIN contacts : contacts[k].company_id \in DOMAIN companies

(***************************************************************************)
(* Deals and the deal_skus junction table.  A handler runs its statements  *)
(* on a connection of its own; when a statement raises, the connection is  *)
(* closed without a commit, which rolls the statements before it back, and *)
(* the handler answers 500.                                                *)
(***************************************************************************)
MaxDealId == 2        \* ids the requests may give to deals

\* the sku ids a request body carries in sku_ids
SkuIdInputs == { 1, 2, 3 }

\* the lists a request body carries in sku_ids
SkuLists ==
    { << >> } \cup { << s >> : s \in SkuIdInputs }
              \cup { << s, t >> : s \in SkuIdInputs, t \in SkuIdInputs }

\* SQL NULL in a numeric column is << >>, the number n is << n >>
NullNum == << >>

\* the rows of deal_skus of one deal, as sku ids
SkusOfDeal(rows, d) == { pair[2] : pair \in { q \in DOMAIN rows : q[1] = d } }

RowsOfAllDeals(rows, d) == rows

\* the rows of deal_skus of the other deals
RowsOfOtherDeals(rows, d) ==
    [ pair \in { q \in DOMAIN rows : q[1] # d } |-> rows[pair] ]

NewDealId ==
    IF backend = "postgres" THEN seq.deals + 1
    ELSE IF DOMAIN deals = {} THEN 1
    ELSE Max(DOMAIN deals) + 1

\* FOREIGN KEY(deal_id) REFERENCES deals(id) and FOREIGN KEY(sku_id)
\* REFERENCES skus(id): PostgreSQL enforces them; the SQLite connections of
\* get_db never enable foreign keys
DealSkuForeignKeysHold(dealIds, d, s) ==
    \/ backend = "sqlite"
    \/ d \in dealIds /\ s \in DOMAIN skus

InsertDealSkuUnchecked(st, dealIds, d, s) ==
    IF ~ st.ok THEN st
    ELSE [ ok |-> TRUE,
           rows |-> IF << d, s >> \in DOMAIN st.rows
                      THEN [st.rows EXCEPT ![<< d, s >>] = @ + 1]
                      ELSE (<< d, s >> :> 1) @@ st.rows ]

\* INSERT INTO deal_skus (deal_id, sku_id): UNIQUE(deal_id, sku_id) refuses
\* a pair that is present
InsertDealSku(st, dealIds, d, s) ==
    IF ~ st.ok THEN st
    ELSE IF << d, s >> \in DOMAIN st.rows
            \/ ~ DealSkuForeignKeysHold(dealIds, d, s)
      THEN [ ok |-> FALSE, rows |-> st.rows ]
      ELSE [ ok |-> TRUE, rows |-> (<< d, s >> :> 1) @@ st.rows ]

RECURSIVE InsertDealSkus(_, _, _, _, _)
\* `for sku_id in sku_ids:` from entry i on
InsertDealSkus(st, dealIds, d, sku_ids, i) ==
    IF i > Len(sku_ids) THEN st
    ELSE InsertDealSkus(InsertDealSku(st, dealIds, d, sku_ids[i]),
                        dealIds, d, sku_ids, i + 1)

\* POST /api/deals
add_deal(data, sku_ids) ==
    /\ Quiescent
    /\ NewDealId <= MaxDealId
    /\ LET d == NewDealId
           st == InsertDealSkus([ok |-> TRUE, rows |-> deal_skus],
                                DOMAIN deals \cup {d}, d, sku_ids, 1)
       IN  /\ deals' = IF st.ok THEN (d :> data) @@ deals ELSE deals
           /\ deal_skus' = IF st.ok THEN st.rows ELSE deal_skus
           /\ last' = IF st.ok
                        THEN Answer("add_deal", d, sku_ids, 201,
                                    SkusOfDeal(deal_skus, d))
                        ELSE Answer("add_deal", d, sku_ids, 500, {})
    /\ seq' = IF backend = "postgres" THEN [seq EXCEPT !.deals = @ + 1] ELSE seq
    /\ UNCHANGED << tasks, documents, today, conns, handler,
                    retry, backend, schema,
                    contacts, companies, skus, settings, db_initialized,
                    proc, hist >>

update_deal_keeping_fields(deal_id, data, sku_ids) ==
    /\ Quiescent
    /\ LET st == InsertDealSkus(
                    [ok |-> TRUE, rows |-> RowsOfOtherDeals(deal_skus, deal_id)],
                    DOMAIN deals, deal_id, sku_ids, 1)
       IN  /\ deals' = IF deal_id \in DOMAIN deals
                         THEN [deals EXCEPT ![deal_id] = data] ELSE deals
           /\ deal_skus' = IF st.ok THEN st.rows ELSE deal_skus
           /\ last' = IF st.ok
                        THEN Answer("update_deal", deal_id, sku_ids, 200,
                                    SkusOfDeal(deal_skus, deal_id))
                        ELSE Answer("update_deal", deal_id, sku_ids, 500, {})
    /\ UNCHANGED << tasks, documents, today, conns, handler,
                    retry, backend, schema,
                    contacts, companies, skus, settings, seq, db_initialized,
                    proc, hist >>

\* PUT /api/deals/<deal_id>
update_deal(deal_id, data, sku_ids) ==
    /\ Quiescent
    /\ LET st == InsertDealSkus(
                    [ok |-> TRUE, rows |-> RowsOfOtherDeals(deal_skus, deal_id)],
                    DOMAIN deals, deal_id, sku_ids, 1)
       IN  /\ deals' = IF st.ok /\ deal_id \in DOMAIN deals
                         THEN [deals EXCEPT ![deal_id] = data] ELSE deals
           /\ deal_skus' = IF st.ok THEN st.rows ELSE deal_skus
           /\ last' = IF st.ok
                        THEN Answer("update_deal", deal_id, sku_ids, 200,
                                    SkusOfDeal(deal_skus, deal_id))
                        ELSE Answer("update_deal", deal_id, sku_ids, 500, {})
    /\ UNCHANGED << tasks, documents, today, conns, handler,
                    retry, backend, schema,
                    contacts, companies, skus, settings, seq, db_initialized,
                    proc, hist >>

\* ON DELETE CASCADE of deal_skus.deal_id acts where foreign keys are
\* enforced: in PostgreSQL
DeleteCascade(rows, d) ==
    IF backend = "postgres" THEN RowsOfOtherDeals(rows, d) ELSE rows

\* DELETE /api/deals/<deal_id>.  (No activity or document refers to a deal
\* in the runs of this handler, so the DELETE is never refused.)
delete_deal(deal_id) ==
    /\ Quiescent
    /\ deals' = [ d \in DOMAIN deals \ {deal_id} |-> deals[d] ]
    /\ deal_skus' = IF deal_id \in DOMAIN deals
                      THEN DeleteCascade(deal_skus, deal_id) ELSE deal_skus
    /\ last' = Answer("delete_deal", deal_id, << >>, 200, {})
    /\ UNCHANGED << tasks, documents, today, conns, handler,
                    retry, backend, schema,
                    contacts, companies, skus, settings, seq, db_initialized,
                    proc, hist >>

(***************************************************************************)
(* Requests on deals and their SKUs, after the first GET / on an empty     *)
(* database                                                                *)
(***************************************************************************)
AfterFirstBoot ==
    /\ retry = RetryIdle
    /\ backend \in {"sqlite", "postgres"}
    /\ schema = CreateTables(NoTables, Len(TableOrder))
    /\ contacts = EmptyFn
    /\ companies = EmptyFn
    /\ skus = SeedLoop(EmptyFn, 1)
    /\ settings = InsertDefaultGoal(EmptyFn)
    /\ seq = [contacts |-> 0, companies |-> 0, deals |-> 0]
    /\ db_initialized = TRUE
    /\ proc = [p \in {1} |-> [ProcIdle EXCEPT !.pc = "ready"]]
    /\ hist = [HistInit(schema) EXCEPT !.runs = MaxRuns, !.seeds = MaxRuns]

DealPlain == [ status |-> "open", value |-> << 100 >>, probability |-> << 50 >> ]

InitDeals == AfterFirstBoot /\ AppAtRest

NextDeals ==
    \/ \E L \in SkuLists : add_deal(DealPlain, L)
    \/ \E d \in 1..MaxDealId, L \in SkuLists : update_deal(d, DealPlain, L)
    \/ \E d \in 1..MaxDealId : delete_deal(d)

SpecDeals == InitDeals /\ [][NextDeals]_vars

(***************************************************************************)
(* Claims about deals and deal_skus (checked under SpecDeals)              *)
(***************************************************************************)
RowCount(rows, d, s) == IF << d, s >> \in DOMAIN rows THEN rows[<< d, s >>] ELSE 0

Distinct(L) == \A i, j \in 1..Len(L) : i # j => L[i] # L[j]

\* C14: after a successful update_deal(d) with a list L of distinct SKU
\* ids, deal_skus holds exactly one row (d, s) for each s in L and no other
\* row of d, whatever rows d had before, and the rows of every other deal
\* are as they were.
C14_UpdateReplacesSkus ==
    [][ \A d \in 1..MaxDealId, L \in SkuLists :
          (update_deal(d, DealPlain, L) /\ last'.status = 200 /\ Distinct(L)) =>
            /\ \A pair \in DOMAIN deal_skus' :
                  pair[1] = d => pair[2] \in SeqToSet(L)
            /\ \A pair \in DOMAIN deal_skus \cup DOMAIN deal_skus' :
                  pair[1] # d =>
                      RowCount(deal_skus', pair[1], pair[2])
                        = RowCount(deal_skus, pair[1], pair[2])
            /\ \A s \in SeqToSet(L) : RowCount(deal_skus', d, s) = 1 ]_vars

\* the deal had SKUs 1 and 2, was updated to [2, 3] and has exactly 2 and
\* 3, while another deal has SKUs too
C14_Witness ==
    /\ last.op = "update_deal"
    /\ last.status = 200
    /\ last.args = << 2, 3 >>
    /\ last.body = { 1, 2 }
    /\ SkusOfDeal(deal_skus, last.id) = { 2, 3 }
    /\ \E d \in DOMAIN deals : d # last.id /\ SkusOfDeal(deal_skus, d) # {}

\* C15: in every reachable state the committed deal_skus table holds no
\* two rows with the same (deal_id, sku_id).
C15_NoDuplicatePairs ==
    \A pair \in DOMAIN deal_skus : deal_skus[pair] = 1

\* a request that named a SKU twice was refused, and rows are stored
C15_Witness ==
    /\ last.op \in { "add_deal", "update_deal" }
    /\ last.status = 500
    /\ ~ Distinct(last.args)
    /\ deal_skus # EmptyFn

\* C16: after delete_deal(d) succeeds no deal_skus row with deal_id = d
\* remains, and a deal created later starts out with exactly the SKUs its
\* request named.
C16_DeleteDealCascades ==
    /\ (last.op = "delete_deal" /\ last.status = 200)
          => SkusOfDeal(deal_skus, last.id) = {}
    /\ (last.op = "add_deal" /\ last.status = 201)
          => SkusOfDeal(deal_skus, last.id) = SeqToSet(last.args)

(***************************************************************************)
(* get_revenue                                                             *)
(***************************************************************************)
\* what the request bodies carry for status, value and probability
DealStatuses == { "open", "closed", "lost", NULL }
DealValues == { NullNum, << 50000 >>, << 100000 >> }
DealProbabilities == { NullNum, << 0 >>, << 50 >> }

DealBodies ==
    [ status : DealStatuses, value : DealValues, probability : DealProbabilities ]

DealsWithAnyStatus(status) == SetToSortedSeq(DOMAIN deals)

\* ... FROM deals WHERE status = ?: the ids of the rows, in rowid order
DealsWithStatus(status) ==
    SetToSortedSeq({ d \in DOMAIN deals : deals[d].status = status })

RECURSIVE SqlSumValue(_)
\* SELECT SUM(value) over the rows ids: NULLs are skipped, and the sum of
\* no number is NULL
SqlSumValue(ids) ==
    IF ids = << >> THEN NullNum
    ELSE LET v == deals[Head(ids)].value
             rest == SqlSumValue(Tail(ids))
         IN  IF v = NullNum THEN rest
             ELSE IF rest = NullNum THEN v
             ELSE << v[1] + rest[1] >>

\* `x or 0` of Python for a number or None
OrZero(x) == IF x = NullNum THEN 0 ELSE IF x[1] = 0 THEN 0 ELSE x[1]

\* the truth value Python gives a number or None
Truthy(x) == x # NullNum /\ x[1] # 0

RECURSIVE ForecastHundredths(_)
\* sum(value * probability / 100 for deal in open_deals if value and
\* probability), in hundredths, so that the division is exact
ForecastHundredths(ids) ==
    IF ids = << >> THEN 0
    ELSE LET deal == deals[Head(ids)]
         IN  (IF Truthy(deal.value) /\ Truthy(deal.probability)
                THEN deal.value[1] * deal.probability[1] ELSE 0)
             + ForecastHundredths(Tail(ids))

\* GET /api/revenue
get_revenue ==
    /\ Quiescent
    /\ last' = Answer("get_revenue", 0, << >>, 200,
                      [ pipeline |-> OrZero(SqlSumValue(DealsWithStatus("open"))),
                        forecasted_hundredths |->
                            ForecastHundredths(DealsWithStatus("open")),
                        realized |-> OrZero(SqlSumValue(DealsWithStatus("closed"))) ])
    /\ UNCHANGED << deals, deal_skus, tasks, documents, today, conns, handler,
                    retry,
                    backend, schema, contacts, companies, skus, settings, seq,
                    db_initialized, proc, hist >>

InitRevenue == AfterFirstBoot /\ AppAtRest

NextRevenue ==
    \/ \E data \in DealBodies : add_deal(data, << >>)
    \/ \E d \in 1..MaxDealId, data \in DealBodies : update_deal(d, data, << >>)
    \/ \E d \in 1..MaxDealId : delete_deal(d)
    \/ get_revenue

SpecRevenue == InitRevenue /\ [][NextRevenue]_vars

(***************************************************************************)
(* Claims about get_revenue (checked under SpecRevenue)                    *)
(***************************************************************************)
RECURSIVE SumOver(_, _)
\* the sum of amount[d] over the deals d of D
SumOver(D, amount) ==
    IF D = {} THEN 0
    ELSE LET d == CHOOSE x \in D : TRUE
         IN  amount[d] + SumOver(D \ {d}, amount)

ValueOrZero ==
    [ d \in DOMAIN deals |->
        IF deals[d].value = NullNum THEN 0 ELSE deals[d].value[1] ]

WeightedHundredths ==
    [ d \in DOMAIN deals |->
        IF deals[d].value = NullNum \/ deals[d].probability = NullNum THEN 0
        ELSE deals[d].value[1] * deals[d].probability[1] ]

OpenDeals == { d \in DOMAIN deals : deals[d].status = "open" }
ClosedDeals == { d \in DOMAIN deals : deals[d].status = "closed" }

\* C17: get_revenue answers pipeline = the sum of value over the open
\* deals, realized = the sum of value over the closed deals, forecasted =
\* the sum of value * probability / 100 over the open deals with both
\* non-null (compared in hundredths), a NULL counting as 0; deals of any
\* other status count in none of the three.
C17_RevenueSums ==
    last.op = "get_revenue" =>
        /\ last.status = 200
        /\ last.body.pipeline = SumOver(OpenDeals, ValueOrZero)
        /\ last.body.realized = SumOver(ClosedDeals, ValueOrZero)
        /\ last.body.forecasted_hundredths = SumOver(OpenDeals, WeightedHundredths)

\* two open deals (100000, 50) and (50000, NULL): pipeline 150000 and
\* forecasted 50000
C17_Witness ==
    /\ last.op = "get_revenue"
    /\ DOMAIN deals = { 1, 2 }
    /\ deals[1] = [ status |-> "open", value |-> << 100000 >>,
                    probability |-> << 50 >> ]
    /\ deals[2] = [ status |-> "open", value |-> << 50000 >>,
                    probability |-> NullNum ]
    /\ last.body.pipeline = 150000
    /\ last.body.forecasted_hundredths = 50000 * 100
    /\ last.body.realized = 0

(***************************************************************************)
(* Standalone tasks and the weekly digest.  A date is a day number; day 0  *)
(* is a Monday.  The handlers compare dates as the ISO strings str(date)   *)
(* gives, whose order is the order of the days.  No task is deleted in     *)
(* these runs, so the id of a new row is the number of rows plus one on    *)
(* both backends.                                                          *)
(***************************************************************************)
MaxTaskId == 2        \* ids the requests may give to tasks
FirstDay == 7         \* the day the runs start on (a Monday)
MaxDay == 14          \* the last day the clock reaches (the Monday after)

\* the due dates the request bodies carry: none, the Sunday before, the
\* Monday, Wednesday and Sunday of the week of FirstDay, the Monday after
DueDates == { NullNum } \cup { << d >> : d \in { 6, 7, 9, 13, 14 } }

\* the completed key of a request body: a JSON boolean, null, or no key
CompletedInputs == { "TRUE", "FALSE", NULL, "absent" }

\* today.weekday() of Python: Monday is 0
Weekday(day) == day % 7

Monday == today - Weekday(today)
Sunday == Monday + 6

\* data.get('completed', False) of add_task
CompletedOrFalse(completed) == IF completed = "absent" THEN "FALSE" ELSE completed

\* data.get('completed') of update_task
CompletedOrNone(completed) == IF completed = "absent" THEN NULL ELSE completed

\* POST /api/tasks
add_task(due_date, completed) ==
    /\ Quiescent
    /\ Cardinality(DOMAIN tasks) < MaxTaskId
    /\ LET id == Cardinality(DOMAIN tasks) + 1
       IN  /\ tasks' = (id :> [ due_date |-> due_date,
                                completed |-> CompletedOrFalse(completed) ])
                       @@ tasks
           /\ last' = Answer("add_task", id, << >>, 201, {})
    /\ UNCHANGED << deals, deal_skus, documents, today, conns, handler,
                    retry, backend,
                    schema, contacts, companies, skus, settings, seq,
                    db_initialized, proc, hist >>

\* PUT /api/tasks/<task_id>
update_task(task_id, due_date, completed) ==
    /\ Quiescent
    /\ tasks' = IF task_id \in DOMAIN tasks
                  THEN [tasks EXCEPT ![task_id] =
                          [ due_date |-> due_date,
                            completed |-> CompletedOrNone(completed) ]]
                  ELSE tasks
    /\ last' = Answer("update_task", task_id, << >>, 200, {})
    /\ UNCHANGED << deals, deal_skus, documents, today, conns, handler,
                    retry, backend,
                    schema, contacts, companies, skus, settings, seq,
                    db_initialized, proc, hist >>

\* `not result['completed']` of Python: None and 0/False are false
NotCompleted(completed) == IF completed = "TRUE" THEN "FALSE" ELSE "TRUE"

\* PATCH /api/tasks/<task_id>/complete
toggle_task_complete(task_id) ==
    /\ Quiescent
    /\ tasks' = IF task_id \in DOMAIN tasks
                  THEN [tasks EXCEPT ![task_id].completed = NotCompleted(@)]
                  ELSE tasks
    /\ last' = IF task_id \in DOMAIN tasks
                 THEN Answer("toggle_task_complete", task_id, << >>, 200,
                             { tasks[task_id].completed })
                 ELSE Answer("toggle_task_complete", task_id, << >>, 404, {})
    /\ UNCHANGED << deals, deal_skus, documents, today, conns, handler,
                    retry, backend,
                    schema, contacts, companies, skus, settings, seq,
                    db_initialized, proc, hist >>

\* SELECT ... FROM tasks WHERE due_date >= ? AND due_date <= ? AND
\* completed = FALSE: a comparison with NULL selects nothing
WeeklyTasks ==
    { id \in DOMAIN tasks :
        /\ tasks[id].due_date # NullNum
        /\ tasks[id].due_date[1] >= Monday
        /\ tasks[id].due_date[1] <= Sunday
        /\ tasks[id].completed = "FALSE" }

\* GET /api/tasks/this-week (no activity has a due date in these runs)
get_tasks_this_week ==
    /\ Quiescent
    /\ last' = Answer("get_tasks_this_week", 0, << today >>, 200, WeeklyTasks)
    /\ UNCHANGED << deals, deal_skus, tasks, documents, today, conns, handler,
                    retry,
                    backend, schema, contacts, companies, skus, settings, seq,
                    db_initialized, proc, hist >>

\* midnight passes
NextDay ==
    /\ today < MaxDay
    /\ today' = today + 1
    /\ UNCHANGED << deals, deal_skus, tasks, documents, conns, handler,
                    last, retry,
                    backend, schema, contacts, companies, skus, settings, seq,
                    db_initialized, proc, hist >>

InitTasks ==
    /\ AfterFirstBoot
    /\ deals = EmptyFn
    /\ deal_skus = EmptyFn
    /\ tasks = EmptyFn
    /\ documents = EmptyFn
    /\ today = FirstDay
    /\ conns = {}
    /\ handler = HandlerIdle
    /\ last = NoRequest

NextTasks ==
    \/ \E due \in DueDates, completed \in CompletedInputs : add_task(due, completed)
    \/ \E id \in 1..MaxTaskId, due \in DueDates, completed \in CompletedInputs :
          update_task(id, due, completed)
    \/ \E id \in 1..MaxTaskId : toggle_task_complete(id)
    \/ get_tasks_this_week
    \/ NextDay

SpecTasks == InitTasks /\ [][NextTasks]_vars

(***************************************************************************)
(* Claims about the weekly digest (checked under SpecTasks)                *)
(***************************************************************************)
\* the due date lies between the Monday and the Sunday of the week of now
DueInWeekOf(id, now) ==
    /\ tasks[id].due_date # NullNum
    /\ \E day \in (now - 6)..(now + 6) :
          /\ day = tasks[id].due_date[1]
          /\ day \div 7 = now \div 7

DueThisWeek(id) == DueInWeekOf(id, today)

\* C18: the weekly digest holds a task if and only if its due date lies
\* between the Monday and the Sunday of the current week (the week of the
\* day of the request) inclusive and it is not completed.
C18_DigestIffDueAndNotCompleted ==
    last.op = "get_tasks_this_week" =>
        last.body = { id \in DOMAIN tasks :
                        /\ DueInWeekOf(id, last.args[1])
                        /\ tasks[id].completed # "TRUE" }

\* C18, for the tasks whose completed column holds a boolean: the digest
\* holds such a task if and only if it is due in the current week and its
\* completed is false; a task whose completed is NULL is never in it.
C18_DigestOfFlaggedTasks ==
    last.op = "get_tasks_this_week" =>
        last.body = { id \in DOMAIN tasks :
                        /\ DueInWeekOf(id, last.args[1])
                        /\ tasks[id].completed = "FALSE" }

\* C18, the toggle: toggling a task of the digest takes it out, and
\* toggling it again puts it back.
C18_ToggleRemovesAndRestores ==
    [][ \A id \in 1..MaxTaskId :
          toggle_task_complete(id) =>
            /\ id \in WeeklyTasks => id \notin WeeklyTasks'
            /\ (id \in DOMAIN tasks /\ DueThisWeek(id)
                  /\ tasks[id].completed = "TRUE") => id \in WeeklyTasks' ]_vars

(***************************************************************************)
(* Documents.  No document is deleted in these runs, so the id of a new    *)
(* row is the number of rows plus one on both backends.                    *)
(***************************************************************************)
MaxDocumentId == 2    \* ids the requests may give to documents

\* the file part of a POST: none, one without a filename, one with a name
FileParts == { "absent", "", "a.pdf" }

\* os.path.join(upload_dir, f"{timestamp}_{filename}")
UploadPath == "uploads/1_a.pdf"

\* data.get('external_link') of a request body: no key (None) or a URL
LinkInputs == { NULL, "http://x" }

\* `'file' in request.files and request.files['file'].filename`
IsUpload(file) == file # "absent" /\ file # ""

\* the file_path and external_link add_document binds to the INSERT
StoredFields(file, link) ==
    IF IsUpload(file)
      THEN [ file_path |-> UploadPath, external_link |-> NULL ]
      ELSE [ file_path |-> NULL, external_link |-> link ]

\* POST /api/documents
add_document(file, link) ==
    /\ Quiescent
    /\ Cardinality(DOMAIN documents) < MaxDocumentId
    /\ LET id == Cardinality(DOMAIN documents) + 1
       IN  /\ documents' = (id :> StoredFields(file, link)) @@ documents
           /\ last' = Answer("add_document", id, << file, link >>, 201, {})
    /\ UNCHANGED << deals, deal_skus, tasks, today, conns, handler,
                    retry, backend,
                    schema, contacts, companies, skus, settings, seq,
                    db_initialized, proc, hist >>

\* PUT /api/documents/<doc_id>: external_link is among the columns the
\* UPDATE sets, file_path is not
update_document(doc_id, link) ==
    /\ Quiescent
    /\ documents' = IF doc_id \in DOMAIN documents
                      THEN [documents EXCEPT ![doc_id].external_link = link]
                      ELSE documents
    /\ last' = Answer("update_document", doc_id, << link >>, 200, {})
    /\ UNCHANGED << deals, deal_skus, tasks, today, conns, handler,
                    retry, backend,
                    schema, contacts, companies, skus, settings, seq,
                    db_initialized, proc, hist >>

InitDocuments == AfterFirstBoot /\ AppAtRest

NextDocuments ==
    \/ \E file \in FileParts, link \in LinkInputs : add_document(file, link)
    \/ \E id \in 1..MaxDocumentId, link \in LinkInputs : update_document(id, link)

SpecDocuments == InitDocuments /\ [][NextDocuments]_vars

(***************************************************************************)
(* Claims about documents (checked under SpecDocuments)                    *)
(***************************************************************************)
\* C19: every stored document has exactly one of file_path and
\* external_link non-null, after any sequence of add_document and
\* update_document requests.
C19_ExactlyOneOfFileAndLink ==
    \A id \in DOMAIN documents :
        (documents[id].file_path # NULL) # (documents[id].external_link # NULL)

(***************************************************************************)
(* Connections.  Every handler opens a connection with get_db(); they      *)
(* differ in where they close it.  A connection is the pair of its number  *)
(* and the handler that opened it.  Any statement may raise.               *)
(***************************************************************************)
MaxConns == 2    \* requests start while fewer connections than this are open

\* the exceptions a statement raises in these runs: one the wrapper
\* retries, one it does not
StatementErrors == { MsgSqliteLocked, MsgUnique }

\* the sku_ids of the bodies POSTed in these runs
PostedSkuLists == { << >>, << 1 >>, << 1, 1 >>, << 1, 2 >> }

\* get_db(): a connection that is none of the open ones
NewConn(op) == << Cardinality(conns) + 1, op >>

\* a request can be routed to a handler: none is being handled
CanHandle ==
    /\ Quiescent
    /\ handler.pc \in {"idle", "returned"}
    /\ retry.pc = "idle"
    /\ Cardinality(conns) < MaxConns

\* GET /api/skus: conn = get_db(); c = conn.cursor()
GetSkusOpens ==
    /\ CanHandle
    /\ conns' = conns \cup {NewConn("get_skus")}
    /\ handler' = [ op |-> "get_skus", pc |-> "execute",
                    conn |-> NewConn("get_skus"), status |-> 0,
                    args |-> << >>, before |-> << >> ]
    /\ UNCHANGED << deals, deal_skus, tasks, documents, today, last, retry,
                    backend, schema, contacts, companies, skus, settings,
                    seq, db_initialized, proc, hist >>

\* c.execute(SELECT ...), c.fetchall(), conn.close(), return jsonify(...)
GetSkusReturns ==
    /\ handler.op = "get_skus" /\ handler.pc = "execute"
    /\ conns' = conns \ {handler.conn}
    /\ handler' = [handler EXCEPT !.pc = "returned", !.conn = 0, !.status = 200]
    /\ UNCHANGED << deals, deal_skus, tasks, documents, today, last, retry,
                    backend, schema, contacts, companies, skus, settings,
                    seq, db_initialized, proc, hist >>

\* c.execute raises: nothing in get_skus catches it, the lines after it
\* are not run and the framework answers 500
GetSkusRaises ==
    /\ handler.op = "get_skus" /\ handler.pc = "execute"
    /\ \E e \in StatementErrors :
          handler' = [handler EXCEPT !.pc = "returned", !.status = 500]
    /\ UNCHANGED << deals, deal_skus, tasks, documents, today, conns, last,
                    retry, backend, schema, contacts, companies, skus,
                    settings, seq, db_initialized, proc, hist >>

\* POST /api/deals with sku_ids in the body: add_deal calls
\* execute_with_retry(do_add).  The rows of the two tables at this moment
\* are kept for comparison.
AddDealEnters(sku_ids) ==
    /\ CanHandle
    /\ NewDealId <= MaxDealId
    /\ handler' = [ op |-> "add_deal", pc |-> "wrapper", conn |-> 0,
                    status |-> 0, args |-> sku_ids,
                    before |-> << deals, deal_skus >> ]
    /\ retry' = [retry EXCEPT !.pc = "try"]
    /\ UNCHANGED << deals, deal_skus, tasks, documents, today, conns, last,
                    backend, schema, contacts, companies, skus, settings,
                    seq, db_initialized, proc, hist >>

\* the wrapper calls func(): do_add runs conn = get_db()
DoAddOpens ==
    /\ handler.op = "add_deal" /\ handler.pc = "wrapper"
    /\ retry.pc = "try"
    /\ conns' = conns \cup {NewConn("add_deal")}
    /\ handler' = [handler EXCEPT !.pc = "try", !.conn = NewConn("add_deal")]
    /\ UNCHANGED << deals, deal_skus, tasks, documents, today, last, retry,
                    backend, schema, contacts, companies, skus, settings,
                    seq, db_initialized, proc, hist >>

\* the INSERTs go through: conn.commit(), the finally clause closes the
\* connection, do_add returns deal_id to the wrapper, which returns it
DoAddCommits(data) ==
    /\ handler.op = "add_deal" /\ handler.pc = "try"
    /\ NewDealId <= MaxDealId
    /\ LET d == NewDealId
           st == InsertDealSkus([ok |-> TRUE, rows |-> deal_skus],
                                DOMAIN deals \cup {d}, d, handler.args, 1)
       IN  /\ st.ok
           /\ deals' = (d :> data) @@ deals
           /\ deal_skus' = st.rows
           /\ retry' = [retry EXCEPT !.pc = "returned",
                                     !.calls = @ + 1,
                                     !.result = << "value", d >>]
    /\ seq' = IF backend = "postgres" THEN [seq EXCEPT !.deals = @ + 1] ELSE seq
    /\ conns' = conns \ {handler.conn}
    /\ handler' = [handler EXCEPT !.pc = "wrapper", !.conn = 0]
    /\ UNCHANGED << tasks, documents, today, last, backend, schema, contacts,
                    companies, skus, settings, db_initialized, proc, hist >>

DoAddRaisesKeepingRow(e, drawn) ==
    /\ handler.op = "add_deal" /\ handler.pc = "try"
    /\ NewDealId <= MaxDealId
    /\ deals' = (NewDealId :> DealPlain) @@ deals
    /\ seq' = IF backend = "postgres" THEN [seq EXCEPT !.deals = @ + 1] ELSE seq
    /\ retry' = [retry EXCEPT !.pc = "except",
                              !.calls = @ + 1,
                              !.errs = Append(@, e)]
    /\ conns' = conns \ {handler.conn}
    /\ handler' = [handler EXCEPT !.pc = "wrapper", !.conn = 0]
    /\ UNCHANGED << deal_skus, tasks, documents, today, last, backend,
                    schema, contacts, companies, skus, settings,
                    db_initialized, proc, hist >>

\* a statement of do_add raises e: nothing was committed, the finally
\* clause closes the connection, e reaches the except clause of the
\* wrapper.  On PostgreSQL the INSERT INTO deals may have drawn an id from
\* the sequence before the statement that raised.
DoAddRaises(e, drawn) ==
    /\ handler.op = "add_deal" /\ handler.pc = "try"
    /\ seq' = IF backend = "postgres" /\ drawn /\ seq.deals < MaxDealId
                THEN [seq EXCEPT !.deals = @ + 1]
                ELSE seq
    /\ retry' = [retry EXCEPT !.pc = "except",
                              !.calls = @ + 1,
                              !.errs = Append(@, e)]
    /\ conns' = conns \ {handler.conn}
    /\ handler' = [handler EXCEPT !.pc = "wrapper", !.conn = 0]
    /\ UNCHANGED << deals, deal_skus, tasks, documents, today, last, backend,
                    schema, contacts, companies, skus, settings,
                    db_initialized, proc, hist >>

\* the wrapper returned or re-raised: add_deal answers 201 or 500
AddDealAnswers ==
    /\ handler.op = "add_deal" /\ handler.pc = "wrapper"
    /\ retry.pc \in {"returned", "raised"}
    /\ handler' = [handler EXCEPT
                      !.pc = "returned",
                      !.status = IF retry.pc = "returned" THEN 201 ELSE 500]
    /\ retry' = RetryIdle
    /\ UNCHANGED << deals, deal_skus, tasks, documents, today, conns, last,
                    backend, schema, contacts, companies, skus, settings,
                    seq, db_initialized, proc, hist >>

InitConns == AfterFirstBoot /\ AppAtRest

NextConns ==
    \/ GetSkusOpens
    \/ GetSkusReturns
    \/ GetSkusRaises
    \/ \E L \in PostedSkuLists : AddDealEnters(L)
    \/ DoAddOpens
    \/ DoAddCommits(DealPlain)
    \/ \E e \in StatementErrors, drawn \in BOOLEAN : DoAddRaises(e, drawn)
    \/ RetryExcept
    \/ AddDealAnswers

SpecConns == InitConns /\ [][NextConns]_vars

(***************************************************************************)
(* Claims about connections (checked under SpecConns)                      *)
(***************************************************************************)
\* C20: every handler that opens a connection closes it before it
\* returns, normally or because a statement raised: while no request is
\* being handled, no connection is open.
C20_NoConnectionOpenAfterReturn ==
    handler.pc \in {"idle", "returned"} => conns = {}

\* C20, the part about the retry wrapper, which holds: a connection do_add
\* opened is open only while that attempt of do_add runs, so each failed
\* attempt has closed its connection before the next attempt opens one.
C20_RetryAttemptsCloseTheirConnection ==
    \A c \in conns :
        c[2] = "add_deal" =>
            /\ handler.op = "add_deal"
            /\ handler.pc = "try"
            /\ handler.conn = c

\* a wrapped request went through a failed attempt and a second
\* connection before it was answered
C20_RetriedAttemptOpened ==
    /\ handler.op = "add_deal" /\ handler.pc = "try"
    /\ retry.attempt > 0

(***************************************************************************)
(* The first requests of a process.  Only serve_index (GET /) calls        *)
(* ensure_db_initialized; the API handlers go to the database directly.    *)
(* Each thread serves one request at a time; init_db may raise at its      *)
(* first CREATE TABLE.                                                     *)
(***************************************************************************)
\* a thread has run init_db, migrate_db and populate_skus to their end in
\* this process
ReconcilerCompleted ==
    db_initialized \/ \E q \in DOMAIN proc : proc[q].pc = "set_flag"

\* the SELECT of get_contacts can be run on the committed schema
ContactsSelectable ==
    /\ schema["contacts"] # {}
    /\ schema["companies"] # {}
    /\ "company_id" \in schema["contacts"]

\* GET /api/contacts served by thread p: do_get opens a connection and
\* runs its SELECT; an exception ("no such table") is answered with 500
get_contacts(p) ==
    /\ proc[p].pc = "idle"
    /\ SetProc(p, [proc[p] EXCEPT !.pc = "ready"])
    /\ last' = Answer("get_contacts", p, << ReconcilerCompleted >>,
                      IF ContactsSelectable THEN 200 ELSE 500,
                      IF ContactsSelectable THEN DOMAIN contacts ELSE {})
    /\ UNCHANGED << deals, deal_skus, tasks, documents, today, conns, handler,
                    retry, backend, schema, contacts, companies, skus,
                    settings, seq, db_initialized, hist >>

\* the database the process finds: never set up, or set up by an earlier
\* process
InitBoot ==
    /\ retry = RetryIdle
    /\ backend \in {"sqlite", "postgres"}
    /\ \/ schema = NoTables /\ skus = EmptyFn /\ settings = EmptyFn
       \/ /\ schema = CreateTables(NoTables, Len(TableOrder))
          /\ skus = SeedLoop(EmptyFn, 1)
          /\ settings = InsertDefaultGoal(EmptyFn)
    /\ contacts = EmptyFn
    /\ companies = EmptyFn
    /\ seq = [contacts |-> 0, companies |-> 0, deals |-> 0]
    /\ db_initialized = FALSE
    /\ proc = [p \in 1..NumThreads |-> ProcIdle]
    /\ hist = [HistInit(schema) EXCEPT !.runs = MaxRuns]
    /\ AppAtRest

NextBoot ==
    \/ \E p \in DOMAIN proc : EnsureCheck(p)
    \/ \E p \in DOMAIN proc : InitDb(p, 1)
    \/ \E p \in DOMAIN proc : MigrateSchema(p, 0)
    \/ \E p \in DOMAIN proc : BackfillSelect(p)
    \/ \E p \in DOMAIN proc : MigrateCommit(p)
    \/ \E p \in DOMAIN proc : PopulateSkus(p)
    \/ \E p \in DOMAIN proc : SetFlag(p)
    \/ \E p \in DOMAIN proc : NewRequest(p)
    \/ \E p \in DOMAIN proc : get_contacts(p)

SpecBoot == InitBoot /\ [][NextBoot]_vars

(***************************************************************************)
(* Claims about the first requests (checked under SpecBoot)                *)
(***************************************************************************)
\* C21: init_db, migrate_db and populate_skus have completed before any
\* request handler executes its first database statement, whatever the
\* order of the first requests: a handler that ran its statement found
\* the sequence completed in this process.
C21_ReconciledBeforeHandlers ==
    last.op = "get_contacts" => last.args[1]

\* C22: across the requests of one process, concurrent ones included, the
\* sequence init_db, migrate_db, populate_skus is executed to successful
\* completion at most one time.
C22_SequenceRunsAtMostOnce ==
    hist.seeds <= 1

\* -- the calls of ensure_db_initialized alone: every request is a GET /
NextEnsure ==
    \/ \E p \in DOMAIN proc : EnsureCheck(p)
    \/ \E p \in DOMAIN proc : InitDb(p, 1)
    \/ \E p \in DOMAIN proc : MigrateSchema(p, 0)
    \/ \E p \in DOMAIN proc : BackfillSelect(p)
    \/ \E p \in DOMAIN proc : MigrateCommit(p)
    \/ \E p \in DOMAIN proc : PopulateSkus(p)
    \/ \E p \in DOMAIN proc : SetFlag(p)
    \/ \E p \in DOMAIN proc : NewRequest(p)

SpecEnsure == InitBoot /\ [][NextEnsure]_vars

(***************************************************************************)
(* Claims about the flag (checked under SpecEnsure)                        *)
(***************************************************************************)
\* the positions of a thread inside ensure_db_initialized, in the order the
\* code passes them when no row needs the backfill
SequenceOrder ==
    << "idle", "init_db", "migrate_schema", "backfill_select", "backfill_loop",
       "populate_skus", "set_flag" >>

PositionOf(pc) == CHOOSE i \in 1..Len(SequenceOrder) : SequenceOrder[i] = pc

InSequence(pc) == pc \in SeqToSet(SequenceOrder) \ {"idle"}

\* C28: db_initialized becomes true only at the end of a call that went
\* through init_db, migrate_db and populate_skus without raising; a call
\* that raises leaves the flag as it was and ends in the exception, and the
\* next call made while the flag is false starts again at init_db; once
\* the flag is true it stays true and no call made afterwards enters any
\* of the three.
C28_FlagFollowsCompletedSequence ==
    [][ /\ db_initialized => db_initialized'
        /\ (~ db_initialized /\ db_initialized') =>
              \E p \in DOMAIN proc :
                  proc[p].pc = "set_flag" /\ proc'[p].pc = "ready"
        /\ \A p \in DOMAIN proc :
              /\ (InSequence(proc'[p].pc) /\ proc'[p].pc # proc[p].pc) =>
                    /\ proc[p].pc \in SeqToSet(SequenceOrder)
                    /\ PositionOf(proc'[p].pc) = PositionOf(proc[p].pc) + 1
              /\ (proc[p].pc # "raised" /\ proc'[p].pc = "raised") =>
                    /\ InSequence(proc[p].pc)
                    /\ db_initialized' = db_initialized
              /\ (proc[p].pc = "idle" /\ proc'[p].pc # "idle") =>
                    proc'[p].pc = IF db_initialized THEN "ready" ELSE "init_db"
              /\ (proc[p].pc = "raised" /\ proc'[p].pc # "raised") =>
                    proc'[p].pc = "idle"
      ]_vars

\* the flag is true only if the sequence was completed in this process
C28_FlagImpliesCompleted ==
    db_initialized => hist.seeds >= 1

\* one call raised and left the flag alone, another call completed the
\* sequence and set it
C28_Witness ==
    /\ db_initialized
    /\ \E p \in DOMAIN proc : proc[p].pc = "raised"

(***************************************************************************)
(* Settings.  key is UNIQUE and value is NOT NULL.  The id of a new row is *)
(* the highest id plus one; no statement of the program reads the ids.     *)
(***************************************************************************)
MaxSettingId == 3    \* ids the rows of settings may get

\* the <key> of the URL
SettingKeys == { "annual_goal", "theme" }

\* a request body without the key value
AbsentText == << "absent" >>

\* data['value'] of the body of a PUT: a string, null, or no such key
SettingValueInputs == { << "5", "0" >>, NullText, AbsentText }

\* SELECT value FROM settings WHERE key = ?, fetchone()
SettingValueOf(st, key) == st[Min(SettingRows(st, key))].value

\* GET /api/settings/<key>
get_setting(key) ==
    /\ Quiescent
    /\ last' = IF schema["settings"] = {}
                 THEN Answer("get_setting", 0, << key >>, 500, << >>)
                 ELSE IF SettingRows(settings, key) = {}
                 THEN Answer("get_setting", 0, << key >>, 404, << >>)
                 ELSE Answer("get_setting", 0, << key >>, 200,
                             SettingValueOf(settings, key))
    /\ UNCHANGED << deals, deal_skus, tasks, documents, today, conns, handler,
                    retry, backend, schema, contacts, companies, skus,
                    settings, seq, db_initialized, proc, hist >>

\* INSERT OR REPLACE (SQLite): the row that holds the key is deleted and a
\* new row is inserted.  ON CONFLICT (key) DO UPDATE (PostgreSQL): the row
\* that holds the key gets the value.
UpsertSetting(st, key, value) ==
    LET old == SettingRows(st, key)
    IN  IF backend = "postgres" /\ old # {}
          THEN [ id \in DOMAIN st |->
                   IF id \in old THEN [st[id] EXCEPT !.value = value]
                   ELSE st[id] ]
          ELSE (NewSettingId(st) :> [key |-> key, value |-> value])
               @@ [ id \in DOMAIN st \ old |-> st[id] ]

\* PUT /api/settings/<key>.  data['value'] raises KeyError without the
\* key, NULL violates NOT NULL, a missing table raises: all answered 500
update_setting(key, value) ==
    /\ Quiescent
    /\ LET refused == \/ schema["settings"] = {}
                      \/ value \in { NullText, AbsentText }
       IN  /\ refused \/ NewSettingId(settings) <= MaxSettingId
           /\ settings' = IF refused THEN settings
                          ELSE UpsertSetting(settings, key, value)
           /\ last' = Answer("update_setting", 0, << key, value >>,
                             IF refused THEN 500 ELSE 200, << >>)
    /\ UNCHANGED << deals, deal_skus, tasks, documents, today, conns, handler,
                    retry, backend, schema, contacts, companies, skus, seq,
                    db_initialized, proc, hist >>

\* -- initializations and requests for settings, over several processes
InitSettings ==
    /\ retry = RetryIdle
    /\ backend \in {"sqlite", "postgres"}
    /\ schema = NoTables
    /\ contacts = EmptyFn
    /\ companies = EmptyFn
    /\ skus = EmptyFn
    /\ settings = EmptyFn
    /\ seq = [contacts |-> 0, companies |-> 0, deals |-> 0]
    /\ db_initialized = FALSE
    /\ proc = [p \in {1} |-> ProcIdle]
    /\ hist = [HistInit(schema) EXCEPT !.runs = MaxRuns]
    /\ AppAtRest

NextSettings ==
    \/ \E p \in DOMAIN proc : EnsureCheck(p)
    \/ \E p \in DOMAIN proc : InitDb(p, 1)
    \/ \E p \in DOMAIN proc : MigrateSchema(p, 0)
    \/ \E p \in DOMAIN proc : BackfillSelect(p)
    \/ \E p \in DOMAIN proc : MigrateCommit(p)
    \/ \E p \in DOMAIN proc : PopulateSkus(p)
    \/ \E p \in DOMAIN proc : SetFlag(p)
    \/ \E p \in DOMAIN proc : NewRequest(p)
    \/ RestartSeeding
    \/ \E key \in SettingKeys : get_setting(key)
    \/ \E key \in SettingKeys, value \in SettingValueInputs :
          update_setting(key, value)

SpecSettings == InitSettings /\ [][NextSettings]_vars

(***************************************************************************)
(* Claims about settings (checked under SpecSettings)                      *)
(***************************************************************************)
\* init_db returned: the thread is past it
InitDbReturned(p) ==
    proc[p].pc = "init_db" /\ proc'[p].pc = "migrate_schema"

\* C24: settings holds at most one row per key in every reachable state;
\* after init_db it holds annual_goal, with '1000000' if the key was
\* absent before and with the value it had if the key was present, so a
\* goal set through update_setting survives every later initialization.
C24_OneRowPerKeyAndGoalKept ==
    /\ [](\A key \in SettingKeys : Cardinality(SettingRows(settings, key)) <= 1)
    /\ [][ \A p \in DOMAIN proc :
             InitDbReturned(p) =>
               /\ Cardinality(SettingRows(settings', "annual_goal")) = 1
               /\ SettingValueOf(settings', "annual_goal") =
                    IF SettingRows(settings, "annual_goal") = {}
                      THEN DefaultGoal
                      ELSE SettingValueOf(settings, "annual_goal") ]_vars

\* init_db has just returned in a process started after update_setting
\* stored another goal
C24_Witness ==
    /\ \E p \in DOMAIN proc : proc[p].pc = "migrate_schema"
    /\ SettingRows(settings, "annual_goal") # {}
    /\ SettingValueOf(settings, "annual_goal") = << "5", "0" >>

(***************************************************************************)
(* Requests that name rows by id or key, on tables that hold some rows     *)
(* and lack others.  The files of uploaded documents are on the disk.      *)
(***************************************************************************)
\* the rows a documents table may hold for one id
DocumentRows ==
    { [file_path |-> UploadPath, external_link |-> NULL],
      [file_path |-> NULL, external_link |-> "http://x"] }

\* the rows a tasks table may hold for one id
TaskRows == { [due_date |-> NullNum, completed |-> c] : c \in {"TRUE", "FALSE"} }

\* the tables that hold rows for some of the ids
TablesOver(ids, rows) ==
    UNION { [S -> rows] : S \in SUBSET ids }

\* GET /api/documents/<doc_id>/download: 404 without a row or without a
\* file_path, the file otherwise
download_document(doc_id) ==
    /\ Quiescent
    /\ last' = IF doc_id \notin DOMAIN documents
                 THEN Answer("download_document", doc_id, << >>, 404, << >>)
                 ELSE IF documents[doc_id].file_path = NULL
                 THEN Answer("download_document", doc_id, << >>, 404, << >>)
                 ELSE Answer("download_document", doc_id, << >>, 200,
                             << documents[doc_id].file_path >>)
    /\ UNCHANGED << deals, deal_skus, tasks, documents, today, conns, handler,
                    retry, backend, schema, contacts, companies, skus,
                    settings, seq, db_initialized, proc, hist >>

\* DELETE /api/documents/<doc_id>: SELECT file_path, remove the file,
\* DELETE FROM documents WHERE id = ?, commit, answer success
delete_document(doc_id) ==
    /\ Quiescent
    /\ documents' = [ id \in DOMAIN documents \ {doc_id} |-> documents[id] ]
    /\ last' = Answer("delete_document", doc_id, << >>, 200, << >>)
    /\ UNCHANGED << deals, deal_skus, tasks, today, conns, handler, retry,
                    backend, schema, contacts, companies, skus, settings,
                    seq, db_initialized, proc, hist >>

InitNotFound ==
    /\ AfterFirstBoot
    /\ deals = EmptyFn
    /\ deal_skus = EmptyFn
    /\ tasks \in TablesOver(1..MaxTaskId, TaskRows)
    /\ documents \in TablesOver(1..MaxDocumentId, DocumentRows)
    /\ today = 0
    /\ conns = {}
    /\ handler = HandlerIdle
    /\ last = NoRequest

NextNotFound ==
    \/ \E key \in SettingKeys : get_setting(key)
    \/ \E id \in 1..MaxTaskId : toggle_task_complete(id)
    \/ \E id \in 1..MaxDocumentId : download_document(id)
    \/ \E id \in 1..MaxDocumentId : delete_document(id)
    \/ \E id \in 1..MaxDocumentId, link \in LinkInputs : update_document(id, link)

SpecNotFound == InitNotFound /\ [][NextNotFound]_vars

(***************************************************************************)
(* Claims about unknown rows (checked under SpecNotFound)                  *)
(***************************************************************************)
\* the rows of all tables
StoredState ==
    << contacts, companies, skus, settings, deals, deal_skus, tasks, documents >>

\* the step answers 404 and changes no row
NotFoundAnswer == last'.status = 404 /\ UNCHANGED StoredState

\* C23: a request that names an unknown setting key, an unknown document,
\* or an unknown task for the completion toggle is answered with 404 and
\* leaves the stored state unchanged.
C23_UnknownAnswered404 ==
    [][ /\ \A key \in SettingKeys :
              (get_setting(key) /\ SettingRows(settings, key) = {}) =>
                  NotFoundAnswer
        /\ \A id \in 1..MaxTaskId :
              (toggle_task_complete(id) /\ id \notin DOMAIN tasks) =>
                  NotFoundAnswer
        /\ \A id \in 1..MaxDocumentId :
              ( /\ id \notin DOMAIN documents
                /\ \/ download_document(id)
                   \/ delete_document(id)
                   \/ \E link \in LinkInputs : update_document(id, link) ) =>
                  NotFoundAnswer ]_vars

\* C23, the part that holds: the unknown key of get_setting, the unknown
\* task of the toggle and the unknown document of a download are answered
\* 404, and nothing is changed.
C23_UnknownAnswered404WhereLookedUp ==
    [][ /\ \A key \in SettingKeys :
              (get_setting(key) /\ SettingRows(settings, key) = {}) =>
                  NotFoundAnswer
        /\ \A id \in 1..MaxTaskId :
              (toggle_task_complete(id) /\ id \notin DOMAIN tasks) =>
                  NotFoundAnswer
        /\ \A id \in 1..MaxDocumentId :
              (download_document(id) /\ id \notin DOMAIN documents) =>
                  NotFoundAnswer ]_vars

\* an unknown document was asked for and 404 was the answer
C23_Witness ==
    /\ last.op = "download_document"
    /\ last.status = 404
    /\ last.id \notin DOMAIN documents

(***************************************************************************)
(* A further claim about the backfill (checked under SpecBackfill)         *)
(***************************************************************************)
\* the contacts the SELECT of the pass of thread p took whose company
\* field is only whitespace
WhitespaceOnly(p) ==
    { c \in DOMAIN proc[p].snap.contacts :
        /\ proc[p].snap.contacts[c].company # NullText
        /\ proc[p].snap.contacts[c].company # << >>
        /\ Trimmed(proc[p].snap.contacts[c].company) = << >>
        /\ proc[p].snap.contacts[c].company_id = NullId }

\* C25: a contact whose company field is only whitespace is skipped by the
\* backfill: its company_id stays null and no company with an empty name
\* is created; the names the pass stores are trimmed, and contacts whose
\* company fields are equal after trimming get one company of the trimmed
\* name.
C25_WhitespaceSkippedNamesTrimmed ==
    \A p \in DOMAIN proc :
        /\ (InPass(p) \/ PassCompleted(p)) =>
              /\ \A c \in WhitespaceOnly(p) :
                    /\ c \notin DOMAIN proc[p].tx.links
                    /\ c \in DOMAIN contacts
                    /\ contacts[c].company_id = NullId
              /\ \A i \in proc[p].created :
                    /\ CompaniesSeenBy(p)[i] # << >>
                    /\ CompaniesSeenBy(p)[i] = Trimmed(CompaniesSeenBy(p)[i])
        /\ PassCompleted(p) =>
              \A c, d \in Unlinked(p) :
                  Trimmed(contacts[c].company) = Trimmed(contacts[d].company) =>
                      /\ contacts[c].company_id = contacts[d].company_id
                      /\ contacts[c].company_id \in DOMAIN companies
                      /\ companies[contacts[c].company_id]
                            = Trimmed(contacts[c].company)

\* a pass has skipped a whitespace-only contact and has linked ' A\t' to a
\* company it created under the name 'A'
C25_Witness ==
    \E p \in DOMAIN proc :
        /\ PassCompleted(p)
        /\ WhitespaceOnly(p) # {}
        /\ \E d \in Unlinked(p) :
              /\ contacts[d].company = << " ", "A", "\t" >>
              /\ contacts[d].company_id \in proc[p].created
              /\ companies[contacts[d].company_id] = << "A" >>

\* the wrapper has returned the id of do_add, or add_deal has answered 201
AddDealSucceeded ==
    /\ handler.op = "add_deal"
    /\ \/ handler.pc = "wrapper" /\ retry.pc = "returned"
       \/ handler.pc = "returned" /\ handler.status = 201

\* C26: add_deal under execute_with_retry commits its effect exactly once
\* when it succeeds: no attempt that fails leaves a row, so while the
\* attempts fail and after the last one has failed the two tables are as
\* they were when the request came in; after the attempt that succeeds
\* (the 5th at the latest) there is exactly one new deal row, with one
\* junction row for each requested SKU and no other new row.
C26_CommitsExactlyOnce ==
    handler.op = "add_deal" =>
        LET deals0 == handler.before[1]
            deal_skus0 == handler.before[2]
        IN  IF AddDealSucceeded
              THEN /\ Cardinality(DOMAIN deals \ DOMAIN deals0) = 1
                   /\ DOMAIN deals0 \subseteq DOMAIN deals
                   /\ \A x \in DOMAIN deals0 : deals[x] = deals0[x]
                   /\ \A d \in DOMAIN deals \ DOMAIN deals0 :
                         /\ SkusOfDeal(deal_skus, d) = SeqToSet(handler.args)
                         /\ \A s \in SeqToSet(handler.args) :
                               RowCount(deal_skus, d, s) = 1
                         /\ RowsOfOtherDeals(deal_skus, d) = deal_skus0
                   /\ retry.pc = "returned" => retry.calls <= max_retries
              ELSE /\ deals = deals0
                   /\ deal_skus = deal_skus0

\* the second or a later attempt of a request with two SKUs has committed
C26_Witness ==
    /\ AddDealSucceeded
    /\ retry.pc = "returned"
    /\ retry.attempt >= 1
    /\ handler.args = << 1, 2 >>

(***************************************************************************)
(* Deals whose fields are edited, with sku_ids that may repeat an id.      *)
(***************************************************************************)
\* a body with other values than DealPlain
DealWon == [ status |-> "closed", value |-> << 200 >>, probability |-> << 100 >> ]

\* the sku_ids of the bodies: without and with a repeated id
EditSkuLists == { << >>, << 1 >>, << 1, 2 >>, << 1, 1 >>, << 2, 1, 2 >> }

NextDealEdits ==
    \/ \E data \in { DealPlain, DealWon }, L \in EditSkuLists : add_deal(data, L)
    \/ \E d \in 1..MaxDealId, data \in { DealPlain, DealWon }, L \in EditSkuLists :
          update_deal(d, data, L)

SpecDealEdits == InitDeals /\ [][NextDealEdits]_vars

(***************************************************************************)
(* Claims about repeated SKU ids (checked under SpecDealEdits)             *)
(***************************************************************************)
\* C27: when sku_ids names one SKU twice, add_deal and update_deal end in
\* a 500 response and the committed rows are unchanged: no new deal row,
\* and for update_deal the fields of the deal and its junction rows are
\* as before.
C27_RepeatedSkuRefused ==
    [][ \A L \in EditSkuLists, data \in { DealPlain, DealWon } :
          ~ Distinct(L) =>
             /\ add_deal(data, L) =>
                   /\ last'.status = 500
                   /\ deals' = deals
                   /\ deal_skus' = deal_skus
             /\ \A d \in 1..MaxDealId :
                   update_deal(d, data, L) =>
                      /\ last'.status = 500
                      /\ deals' = deals
                      /\ deal_skus' = deal_skus ]_vars

\* an update that repeated a SKU id was refused for a deal that has
\* junction rows, while the table holds deals of both bodies
C27_Witness ==
    /\ last.op = "update_deal"
    /\ last.status = 500
    /\ ~ Distinct(last.args)
    /\ last.id \in DOMAIN deals
    /\ SkusOfDeal(deal_skus, last.id) # {}
    /\ \E d \in DOMAIN deals : deals[d] = DealWon
    /\ \E d \in DOMAIN deals : deals[d] = DealPlain

(***************************************************************************)
(* toggle_task_complete, statement by statement, for request threads that  *)
(* run at the same time: do_toggle SELECTs the flag on its own connection, *)
(* negates it in Python and UPDATEs the row with that value.               *)
(***************************************************************************)
MaxToggles == 3       \* toggle requests that arrive in one run

\* the history of the toggle requests: the table they found, the toggles
\* of each task that reported success, the requests that came in
ToggleHist(s) ==
    [ tasks0 |-> tasks,
      toggles |-> [t \in 1..MaxTaskId |-> 0],
      requests |-> 0 ] @@ HistInit(s)

\* c.execute('SELECT completed FROM tasks WHERE id = ?') and fetchone()
\* found the row: result['completed'] is now a local of thread p
ToggleSelects(p, task_id) ==
    /\ proc[p].pc = "idle"
    /\ hist.requests < MaxToggles
    /\ task_id \in DOMAIN tasks
    /\ proc' = [proc EXCEPT ![p].pc = "selected",
                            ![p].rows = << task_id, tasks[task_id].completed >>]
    /\ hist' = [hist EXCEPT !.requests = @ + 1]
    /\ UNCHANGED << retry, backend, schema, contacts, companies, skus, settings,
                    seq, db_initialized, appVars >>

\* fetchone() found no row: do_toggle returns None and the handler
\* answers 404
ToggleNotFound(p, task_id) ==
    /\ proc[p].pc = "idle"
    /\ hist.requests < MaxToggles
    /\ task_id \notin DOMAIN tasks
    /\ hist' = [hist EXCEPT !.requests = @ + 1]
    /\ last' = Answer("toggle_task_complete", task_id, << p >>, 404, {})
    /\ UNCHANGED << retry, backend, schema, contacts, companies, skus, settings,
                    seq, db_initialized, proc, deals, deal_skus, tasks,
                    documents, today, conns, handler >>

\* new_status = not result['completed']; UPDATE tasks SET completed =
\* new_status WHERE id = task_id; conn.commit(); the handler answers
\* {'success': True, 'completed': new_status}
ToggleUpdates(p) ==
    /\ proc[p].pc = "selected"
    /\ LET task_id == proc[p].rows[1]
           new_status == NotCompleted(proc[p].rows[2])
       IN  /\ tasks' = [tasks EXCEPT ![task_id].completed = new_status]
           /\ hist' = [hist EXCEPT !.toggles[task_id] = @ + 1]
           /\ last' = Answer("toggle_task_complete", task_id, << p >>, 200,
                             { new_status })
    /\ proc' = [proc EXCEPT ![p] = ProcIdle]
    /\ UNCHANGED << retry, backend, schema, contacts, companies, skus, settings,
                    seq, db_initialized, deals, deal_skus, documents, today,
                    conns, handler >>

InitToggles ==
    /\ retry = RetryIdle
    /\ backend \in {"sqlite", "postgres"}
    /\ schema = CreateTables(NoTables, Len(TableOrder))
    /\ contacts = EmptyFn
    /\ companies = EmptyFn
    /\ skus = SeedLoop(EmptyFn, 1)
    /\ settings = InsertDefaultGoal(EmptyFn)
    /\ seq = [contacts |-> 0, companies |-> 0, deals |-> 0]
    /\ db_initialized = TRUE
    /\ proc = [p \in 1..NumThreads |-> ProcIdle]
    /\ deals = EmptyFn
    /\ deal_skus = EmptyFn
    /\ tasks \in TablesOver(1..MaxTaskId, TaskRows)
    /\ documents = EmptyFn
    /\ today = 0
    /\ conns = {}
    /\ handler = HandlerIdle
    /\ last = NoRequest
    /\ hist = ToggleHist(schema)

NextToggles ==
    \/ \E p \in 1..NumThreads, t \in 1..MaxTaskId : ToggleSelects(p, t)
    \/ \E p \in 1..NumThreads, t \in 1..MaxTaskId : ToggleNotFound(p, t)
    \/ \E p \in 1..NumThreads : ToggleUpdates(p)

SpecToggles == InitToggles /\ [][NextToggles]_vars

\* the flag a task has after n toggles of the flag it started with
FlagAfter(completed, n) ==
    IF n % 2 = 0 THEN completed ELSE NotCompleted(completed)

\* C29: after n toggle requests on one task have reported success, in any
\* interleaving of the requests, the flag of the task is its initial value
\* when n is even and the negation when n is odd.
C29_FlagFollowsParityOfToggles ==
    \A t \in DOMAIN tasks :
        tasks[t].completed = FlagAfter(hist.tasks0[t].completed, hist.toggles[t])

\* C29, the part that holds: a request that reports success returns the
\* value it stored, and the rows of the other tasks are left alone
C29_ReturnsStoredValueOthersKept ==
    [][ \A p \in 1..NumThreads :
          ToggleUpdates(p) =>
            /\ last'.body = { tasks'[last'.id].completed }
            /\ DOMAIN tasks' = DOMAIN tasks
            /\ \A t \in DOMAIN tasks \ { last'.id } : tasks'[t] = tasks[t] ]_vars

\* two toggles of one task have reported success and the flag is not the
\* one the task started with
C29_Witness ==
    \E t \in DOMAIN tasks :
        /\ hist.toggles[t] = 2
        /\ tasks[t].completed # hist.tasks0[t].completed

(***************************************************************************)
(* GET /api/pipeline/analytics: the open deals by stage and by month of    *)
(* expected close.  The rows of deals carry two more columns here: stage   *)
(* and expected_close_date (TEXT, as a sequence of characters).            *)
(***************************************************************************)
Date0115 == << "2", "0", "2", "5", "-", "0", "1", "-", "1", "5" >>
Date0131 == << "2", "0", "2", "5", "-", "0", "1", "-", "3", "1" >>
Date0201 == << "2", "0", "2", "5", "-", "0", "2", "-", "0", "1" >>

\* expected_close_date of a body: null, '', three ISO dates
CloseDates == { NullText, << >>, Date0115, Date0131, Date0201 }

stage_order == << "qualification", "needs_analysis", "proposal", "negotiation" >>

\* stage of a body: the four of stage_order, null, another text
StageInputs == SeqToSet(stage_order) \cup { NULL, "closed_won" }

PipelineDeal ==
    [ status |-> "open", value |-> << 100 >>, probability |-> << 50 >>,
      stage |-> "proposal", expected_close_date |-> Date0115 ]

\* how many columns of row r differ from those of row s
ColumnsApart(r, s) == Cardinality({ f \in DOMAIN r : r[f] # s[f] })

\* the rows of deals: PipelineDeal and the rows one column apart from it
PipelineRows ==
    { r \in [ status : { "open", "closed", NULL },
              value : { << 100 >>, << 30 >>, NullNum },
              probability : { << 50 >> },
              stage : StageInputs,
              expected_close_date : CloseDates ] :
        ColumnsApart(r, PipelineDeal) <= 1 }

\* the bodies of the POST and PUT requests of the runs
PipelineBodies ==
    { PipelineDeal,
      [PipelineDeal EXCEPT !.stage = "negotiation",
                           !.expected_close_date = Date0201],
      [PipelineDeal EXCEPT !.stage = NULL, !.expected_close_date = NullText] }

\* the mutant of PipelineSelect without the WHERE clause
PipelineSelectAll == DOMAIN deals

\* SELECT d.*, c.name ... FROM deals d LEFT JOIN contacts c ON
\* d.contact_id = c.id WHERE d.status = 'open': contacts.id is the primary
\* key, so every deal gives one row; a NULL status is not 'open'
PipelineSelect == { d \in DOMAIN deals : deals[d].status = "open" }

\* deal['value'] or 0
DealValue(d) == IF deals[d].value = NullNum THEN 0 ELSE deals[d].value[1]

\* (deal['value'] or 0) * (deal['probability'] or 0) / 100, in hundredths
DealWeighted(d) ==
    IF deals[d].probability = NullNum THEN 0
    ELSE DealValue(d) * deals[d].probability[1]

EmptyStage == [ deals |-> << >>, total_value |-> 0, weighted_value |-> 0,
                count |-> 0 ]

\* the loop `for deal in deals` that fills stages, from row i of rows
RECURSIVE StagesLoop(_, _, _)
StagesLoop(stages, rows, i) ==
    IF i > Len(rows) THEN stages
    ELSE LET d == rows[i]
             stage == deals[d].stage
         IN  IF stage \in DOMAIN stages
               THEN StagesLoop(
                      [stages EXCEPT
                         ![stage].deals = Append(@, d),
                         ![stage].total_value = @ + DealValue(d),
                         ![stage].weighted_value = @ + DealWeighted(d),
                         ![stage].count = @ + 1],
                      rows, i + 1)
               ELSE StagesLoop(stages, rows, i + 1)

NoDateSet == << "No Date Set" >>

\* close_date[:7]
FirstSeven(text) == SubSeq(text, 1, IF Len(text) < 7 THEN Len(text) ELSE 7)

\* month_key: `if close_date:` is false for None and for ''
MonthKey(close_date) ==
    IF close_date = NullText \/ close_date = << >>
      THEN NoDateSet
      ELSE FirstSeven(close_date)

EmptyMonth == [ total |-> 0, weighted |-> 0, count |-> 0 ]

\* the loop `for deal in deals` that fills monthly_forecast, from row i
RECURSIVE MonthsLoop(_, _, _)
MonthsLoop(monthly_forecast, rows, i) ==
    IF i > Len(rows) THEN monthly_forecast
    ELSE LET d == rows[i]
             month_key == MonthKey(deals[d].expected_close_date)
             known == IF month_key \in DOMAIN monthly_forecast
                        THEN monthly_forecast
                        ELSE (month_key :> EmptyMonth) @@ monthly_forecast
         IN  MonthsLoop(
               [known EXCEPT ![month_key].total = @ + DealValue(d),
                             ![month_key].weighted = @ + DealWeighted(d),
                             ![month_key].count = @ + 1],
               rows, i + 1)

\* sum(s[field] for s in stages.values())
SumStages(stages, field) ==
    SumSeq([ i \in 1..Len(stage_order) |-> stages[stage_order[i]][field] ])

\* the dictionary do_get returns (without the split by SKU category); the
\* rows are taken in the order of their ids
PipelineAnalytics ==
    LET rows == SetToSortedSeq(PipelineSelect)
        stages == StagesLoop([s \in SeqToSet(stage_order) |-> EmptyStage],
                             rows, 1)
    IN  [ stages |-> stages,
          monthly_forecast |-> MonthsLoop(EmptyFn, rows, 1),
          totals |-> [ pipeline |-> SumStages(stages, "total_value"),
                       weighted |-> SumStages(stages, "weighted_value"),
                       deal_count |-> SumStages(stages, "count") ] ]

get_pipeline_analytics ==
    /\ Quiescent
    /\ last' = Answer("get_pipeline_analytics", 0, << >>, 200, PipelineAnalytics)
    /\ UNCHANGED << deals, deal_skus, tasks, documents, today, conns, handler,
                    retry, backend, schema, contacts, companies, skus, settings,
                    seq, db_initialized, proc, hist >>

InitPipeline ==
    /\ AfterFirstBoot
    /\ deals \in TablesOver(1..MaxDealId, PipelineRows)
    /\ deal_skus = EmptyFn
    /\ tasks = EmptyFn
    /\ documents = EmptyFn
    /\ today = 0
    /\ conns = {}
    /\ handler = HandlerIdle
    /\ last = NoRequest

NextPipeline ==
    \/ get_pipeline_analytics
    \/ \E data \in PipelineBodies, L \in { << >>, << 1 >> } : add_deal(data, L)
    \/ \E d \in 1..MaxDealId, data \in PipelineBodies, L \in { << >>, << 1 >> } :
          update_deal(d, data, L)

SpecPipeline == InitPipeline /\ [][NextPipeline]_vars

\* the deals whose status is 'open'
C30_Open == { d \in DOMAIN deals : deals[d].status = "open" }

\* the month bucket the claim gives a deal: the first seven characters
\* (YYYY-MM) of its expected close date, 'No Date Set' without one
C30_BucketOf(d) ==
    LET date == deals[d].expected_close_date
    IN  IF date \in { NullText, << >> } THEN NoDateSet
        ELSE << date[1], date[2], date[3], date[4], date[5], date[6], date[7] >>

C30_Listed == { "qualification", "needs_analysis", "proposal", "negotiation" }

\* C30: in the answer of get_pipeline_analytics every open deal is counted
\* in exactly one monthly_forecast bucket (the YYYY-MM of its expected close
\* date, or 'No Date Set') and in exactly one stage bucket if and only if
\* its stage is one of the four listed; totals.deal_count is the number of
\* open deals with a listed stage, and the monthly counts add up to the
\* number of open deals.
C30_OpenDealsCountedOnce ==
    (last.op = "get_pipeline_analytics" /\ last.status = 200) =>
        LET stages == last.body.stages
            months == last.body.monthly_forecast
        IN  /\ DOMAIN stages = C30_Listed
            /\ \A s \in C30_Listed :
                  /\ SeqToSet(stages[s].deals) =
                        { d \in C30_Open : deals[d].stage = s }
                  /\ stages[s].count = Len(stages[s].deals)
                  /\ stages[s].count =
                        Cardinality({ d \in C30_Open : deals[d].stage = s })
            /\ DOMAIN months = { C30_BucketOf(d) : d \in C30_Open }
            /\ \A k \in DOMAIN months :
                  months[k].count =
                     Cardinality({ d \in C30_Open : C30_BucketOf(d) = k })
            /\ last.body.totals.deal_count =
                  Cardinality({ d \in C30_Open : deals[d].stage \in C30_Listed })
            /\ SumOver(DOMAIN months, [k \in DOMAIN months |-> months[k].count])
                  = Cardinality(C30_Open)

\* the analytics were answered for two open deals of one month, one of them
\* with a stage that is not listed
C30_Witness ==
    /\ last.op = "get_pipeline_analytics"
    /\ last.status = 200
    /\ \E k \in DOMAIN last.body.monthly_forecast :
          last.body.monthly_forecast[k].count = 2
    /\ last.body.totals.deal_count = 1
    /\ Cardinality(C30_Open) = 2

=============================================================================
